---- MODULE Spec2Model ----
(***************************************************************************)
(* A model of @dpaskhin/unique (src/src/main/index.ts, lines 1-235):       *)
(* uniqueFactory, the retry loop of the function it returns, unique and    *)
(* GLOBAL_STORE.                                                           *)
(*                                                                         *)
(* A JavaScript value is a record [kind, id, val].  Primitives have id 0   *)
(* and are equal when kind and val agree; every object has its own id, so  *)
(* record equality is the SameValueZero comparison that Set.has and        *)
(* Array.includes make.                                                    *)
(***************************************************************************)
EXTENDS Integers, Sequences, FiniteSets, Bags, TLC

\* ------------------------------------------------------------------ bounds

\* The largest maxRetries and maxTime a caller passes in options.
MaxRetriesOpt == 2
MaxTimeOpt == 2
\* The most milliseconds one invocation of an operation takes.
MaxStep == 1
\* The number of calls of generated functions in one behaviour.
MaxCalls == 2

\* ------------------------------------------------------------------ values

Num1 == [kind |-> "number", id |-> 0, val |-> "1"]
Str1 == [kind |-> "string", id |-> 0, val |-> "1"]
\* Two distinct objects of the same structure {key: 'a'}.
ObjA1 == [kind |-> "object", id |-> 1, val |-> "a"]
ObjA2 == [kind |-> "object", id |-> 2, val |-> "a"]
Undefined == [kind |-> "undefined", id |-> 0, val |-> ""]
NaN == [kind |-> "number", id |-> 0, val |-> "NaN"]

\* The values the operations produce.
Values == {Num1, Str1, ObjA1}

JSString(s) == [kind |-> "string", id |-> 0, val |-> s]

\* JSON.stringify: a number prints as its digits, a string is quoted, an
\* object {key: k} prints its structure; the object's identity is lost.
JSONstringify(v) ==
    CASE v = NaN -> JSString("null")
      [] v.kind = "number" -> JSString(v.val)
      [] v.kind = "string" -> JSString("\"" \o v.val \o "\"")
      [] v.kind = "object" -> JSString("{\"key\":\"" \o v.val \o "\"}")
      [] OTHER -> Undefined

\* Mutant: the stringifier of the options is ignored.
Apply_Default(stringifier, v) == JSONstringify(v)

\* stringifier(v) for the two stringifiers: the default, JSON.stringify, and
\* the identity function (value => value as unknown as string).
Apply(stringifier, v) ==
    IF stringifier = "JSON.stringify" THEN JSONstringify(v) ELSE v

\* Array.prototype.map with value => stringifier(value)
MapStringifier(arr, stringifier) ==
    [i \in 1..Len(arr) |-> Apply(stringifier, arr[i])]

\* Mutant: nothing is ever found in the array.
Includes_Never(arr, v) == FALSE

\* Mutant: the elements are normalized in place.
AfterMap_InPlace(arr, stringifier) == MapStringifier(arr, stringifier)

\* What exclude.map(value => stringifier(value)) leaves in the array it is
\* called on: map builds a new array.
AfterMap(arr, stringifier) == arr

\* Array.prototype.includes
Includes(arr, v) == \E i \in 1..Len(arr) : arr[i] = v

\* ------------------------------------------------------------------ stores

GLOBAL_STORE == "GLOBAL_STORE"
\* The Set a caller creates and passes as options.store.
CallerStore == "callerStore"
\* The Set uniqueFactory creates when options.store is absent.
NewSet == "new Set()"
\* A second Set a caller creates and passes as options.store.
OtherStore == "otherStore"
\* The Set uniqueFactory creates for a second generator.
NewSet2 == "new Set()#2"
StoreIds == {GLOBAL_STORE, CallerStore, OtherStore, NewSet, NewSet2}

\* The contents a caller's Set has when it is handed over: empty, or
\* seeded with the number 1 or with the string '1'.
PreSeeds == {{}, {Num1}, {Str1}}

\* Mutant: nothing is ever found in the store.
Has_Never(set, v) == FALSE

\* Set.prototype.has
Has(set, v) == v \in set

\* Mutant: the insertion is lost.
Add_Nothing(set, v) == set

\* Set.prototype.add
Add(set, v) == set \cup {v}

\* ------------------------------------------------------------------ inputs

\* An operation fn: the values it can produce and the milliseconds one
\* invocation takes (vi.advanceTimersByTime in the tests).
\* The constant operation mockReturnValue(1) and the operation that picks
\* any of Values (faker.helpers.arrayElement), both taking no time; and the
\* constant operation that takes 0..MaxStep ms.
ValueFns == {[vals |-> V, step |-> 0] : V \in {{Num1}, Values}}
TimedFns == {[vals |-> {Num1}, step |-> d] : d \in 0..MaxStep}

\* An operation that computes its result from its arguments has a body;
\* a parameter that gets no argument is undefined.
Num5 == [kind |-> "number", id |-> 0, val |-> "5"]
Num10 == [kind |-> "number", id |-> 0, val |-> "10"]
StrJohn == [kind |-> "string", id |-> 0, val |-> "John"]
StrDoe == [kind |-> "string", id |-> 0, val |-> "Doe"]
Param(a, i) == IF i <= Len(a) THEN a[i] ELSE Undefined
ValOf(v) == IF v.kind = "undefined" THEN "undefined" ELSE v.val

\* x => x * 2, for the arguments 5 and undefined
Double(a) == IF Param(a, 1) = Num5 THEN Num10 ELSE NaN

\* (firstName, lastName) => firstName + '.' + lastName
Join(a) == JSString(ValOf(Param(a, 1)) \o "." \o ValOf(Param(a, 2)))

DoubleFn == [vals |-> {}, step |-> 0, body |-> "x => x * 2"]
JoinFn ==
    [vals |-> {}, step |-> 0,
     body |-> "(firstName, lastName) => firstName + '.' + lastName"]

\* fn.apply(null, a): the values fn may return for the arguments a.
Results(fn, a) ==
    IF "body" \in DOMAIN fn
      THEN IF fn = DoubleFn THEN {Double(a)} ELSE {Join(a)}
      ELSE fn.vals

\* An options object has any subset of the five fields.  The exclude list
\* [{key: 'a'}] holds an object of its own, as in the tests.
StoreOpts == {<<>>, [store |-> CallerStore]}
MaxRetriesOpts == {[maxRetries |-> n] : n \in 0..MaxRetriesOpt}
MaxTimeOpts == {[maxTime |-> t] : t \in 0..MaxTimeOpt}
ExcludeOpts == {<<>>, [exclude |-> <<Num1>>], [exclude |-> <<ObjA2>>]}
StringifierOpts == {<<>>, [stringifier |-> "identity"]}

\* Options that vary the store, the exclude list and the stringifier under
\* the largest budgets, and options that vary both budgets on the caller's
\* store.
ValueOptions ==
    {a @@ d @@ e @@ [maxRetries |-> MaxRetriesOpt, maxTime |-> MaxTimeOpt] :
        a \in StoreOpts, d \in ExcludeOpts, e \in StringifierOpts}
BudgetOptions ==
    {[store |-> CallerStore] @@ b @@ c :
        b \in MaxRetriesOpts, c \in MaxTimeOpts}

\* The two budget tests of the repository: maxRetries 3 with a constant
\* operation, and maxTime 100 with a constant operation that takes 10 ms.
TestInputs ==
    {<<[vals |-> {Num1}, step |-> 0],
       [store |-> CallerStore, maxRetries |-> 3]>>,
     <<[vals |-> {Num1}, step |-> 10],
       [store |-> CallerStore, maxTime |-> 100]>>}

\* The pairs <<fn, options>> a caller passes.
Inputs ==
    (ValueFns \X ValueOptions) \cup (TimedFns \X BudgetOptions)
        \cup TestInputs

\* What Date.now() reads when a call begins.
StartClocks == {0, 1}

\* ------------------------------------------------------------------ state

VARIABLES
    stores,             \* the contents of each Set
    gen,                \* <<>> or <<g>>: the generated function in use
    clock,              \* Date.now() during a call
    pc,                 \* "idle", the place of the running call in its loop,
                        \* or "done" when it has returned or thrown
    currentIterations,  \* locals of the running call
    startTime,
    duration,
    result,
    tmpResult,
    outcome,            \* how the call ended
    invocations,        \* history: invocations of fn in this call
    before,             \* history: stores when this call began
    rejects,            \* history: candidates of this call rejected as stored,
                        \* and as excluded
    passed,             \* history: the entry point that made gen and the
                        \* options object as the caller wrote it
    returned,           \* history: per store, the bag of normalized forms returned
    calls,              \* history: calls begun
    args,               \* the arguments of the running call
    received,           \* history: the arguments of each invocation of fn
                        \* in this call
    candidates,         \* history: the results of the invocations of fn
                        \* in this call, in order
    callerExclude,      \* the contents of the array the caller passed as
                        \* options.exclude when the newest generator was
                        \* built, <<>> when it passed none
    callerOptions       \* the contents of the options object the caller
                        \* passed when the newest generator was built

vars == <<stores, gen, clock, pc, currentIterations, startTime, duration,
          result, tmpResult, outcome, invocations, before, rejects, passed,
          returned, calls, args, received, candidates, callerExclude, callerOptions>>

locals == <<currentIterations, startTime, duration, result, tmpResult>>

\* ------------------------------------------------------------------ uniqueFactory

DefaultMaxRetries == 50
DefaultMaxTime == 50

Option(options, field, default) ==
    IF field \in DOMAIN options THEN options[field] ELSE default

\* let {store = new Set(), maxRetries = 50, maxTime = 50, exclude = [],
\*      stringifier = JSON.stringify} = options
StoreOf(options) == Option(options, "store", NewSet)
MaxRetriesOf(options) == Option(options, "maxRetries", DefaultMaxRetries)

\* Mutant: the default time ceiling is twice as large.
MaxTimeOf_Doubled(options) ==
    Option(options, "maxTime", 2 * DefaultMaxTime)

MaxTimeOf(options) == Option(options, "maxTime", DefaultMaxTime)
StringifierOf(options) == Option(options, "stringifier", "JSON.stringify")

\* Mutant: the exclude list is left as the caller wrote it.
ExcludeOf_Raw(options) == Option(options, "exclude", <<>>)

\* exclude = exclude.map(value => stringifier(value))
ExcludeOf(options) ==
    MapStringifier(Option(options, "exclude", <<>>), StringifierOf(options))

\* The closure uniqueFactory returns: fn, the destructured options and the
\* options object it was given.
uniqueFactory(fn, options) ==
    [fn |-> fn,
     store |-> StoreOf(options),
     maxRetries |-> MaxRetriesOf(options),
     maxTime |-> MaxTimeOf(options),
     exclude |-> ExcludeOf(options),
     stringifier |-> StringifierOf(options),
     options |-> options]

\* The template literal of createErrorMessage.
ErrorText(code, storeSize, dur, iterations) ==
    "\n  " \o code \o " for uniqueness check.\n    \n"
    \o "Found " \o ToString(storeSize)
    \o " unique entries before throwing error.\n"
    \o "retried: " \o ToString(iterations) \o "\n"
    \o "total time: " \o ToString(dur) \o "ms\n\n"
    \o "May not be able to generate any more unique values with current settings.\n"
    \o "Try adjusting maxTime or maxRetries parameters."

\* Mutant: the attempts and the duration change places.
createErrorMessage_Swapped(code, storeSize, dur, iterations) ==
    [code |-> code, storeSize |-> storeSize, duration |-> iterations,
     currentIterations |-> dur,
     text |-> ErrorText(code, storeSize, iterations, dur)]

\* createErrorMessage: the message, and the four values it is built from.
createErrorMessage(code, storeSize, dur, iterations) ==
    [code |-> code, storeSize |-> storeSize, duration |-> dur,
     currentIterations |-> iterations,
     text |-> ErrorText(code, storeSize, dur, iterations)]

NoError == createErrorMessage("", 0, 0, 0)

NoOutcome == [kind |-> "none", value |-> Undefined, error |-> NoError]
Pending == [kind |-> "pending", value |-> Undefined, error |-> NoError]
Returned(v) == [kind |-> "returned", value |-> v, error |-> NoError]
Thrown(e) == [kind |-> "thrown", value |-> Undefined, error |-> e]

NoRejects == [stored |-> 0, excluded |-> 0]

Init ==
    /\ stores \in {[s \in StoreIds |-> IF s = CallerStore THEN seed ELSE {}] :
                     seed \in PreSeeds}
    /\ gen = <<>>
    /\ clock = 0
    /\ pc = "idle"
    /\ currentIterations = 0
    /\ startTime = 0
    /\ duration = 0
    /\ result = Undefined
    /\ tmpResult = Undefined
    /\ outcome = NoOutcome
    /\ invocations = 0
    /\ before = stores
    /\ rejects = NoRejects
    /\ passed = <<>>
    /\ returned = [s \in StoreIds |-> EmptyBag]
    /\ calls = 0
    /\ args = <<>>
    /\ received = <<>>
    /\ candidates = <<>>
    /\ callerExclude = <<>>
    /\ callerOptions = <<>>

\* const g = uniqueFactory(fn, options): without options.store a new, empty
\* Set is created for the generator.  No generator is built once the last
\* call of the behaviour has been made.
UniqueFactory(fn, options) ==
    /\ pc = "idle"
    /\ calls < MaxCalls
    /\ gen' = <<uniqueFactory(fn, options)>>
    /\ IF "store" \in DOMAIN options
         THEN UNCHANGED <<stores, returned>>
         ELSE /\ stores' = [stores EXCEPT ![NewSet] = {}]
              /\ returned' = [returned EXCEPT ![NewSet] = EmptyBag]
    /\ passed' = <<"uniqueFactory", options>>
    /\ callerExclude' =
          AfterMap(Option(options, "exclude", <<>>), StringifierOf(options))
    /\ callerOptions' = options
    /\ UNCHANGED <<clock, pc, locals, outcome, invocations, before, rejects,
                   calls,
                   args, received, candidates>>

\* Mutant: the attempt counter and the start time belong to the generator
\* and are set once, when it is built.
EnterWithin_Shared(g, n) ==
    /\ calls < n
    /\ calls' = calls + 1
    /\ \E t \in StartClocks : clock' = t
    /\ UNCHANGED <<currentIterations, startTime>>
    /\ duration' = 0
    /\ result' = Undefined
    /\ tmpResult' = Undefined
    /\ outcome' = Pending
    /\ invocations' = 0
    /\ before' = stores
    /\ rejects' = NoRejects
    /\ received' = <<>>
    /\ candidates' = <<>>
    /\ pc' = "check"

\* The first statements of the returned function: currentIterations = 0,
\* startTime = Date.now().  The clock reads any of StartClocks then; a
\* behaviour makes at most n calls.
EnterWithin(g, n) ==
    /\ calls < n
    /\ calls' = calls + 1
    /\ \E t \in StartClocks : clock' = t /\ startTime' = t
    /\ currentIterations' = 0
    /\ duration' = 0
    /\ result' = Undefined
    /\ tmpResult' = Undefined
    /\ outcome' = Pending
    /\ invocations' = 0
    /\ before' = stores
    /\ rejects' = NoRejects
    /\ received' = <<>>
    /\ candidates' = <<>>
    /\ pc' = "check"

Enter(g) == EnterWithin(g, MaxCalls)

\* g(...a): a call of the generated function in use with the arguments a.
CallArgs(a, n) ==
    /\ pc = "idle"
    /\ gen # <<>>
    /\ args' = a
    /\ EnterWithin(gen[1], n)
    /\ UNCHANGED <<stores, gen, passed, returned, callerExclude, callerOptions>>

\* g()
CallWithin(n) == CallArgs(<<>>, n)

Call == CallWithin(MaxCalls)

\* Mutant: the caller's store is overridden by GLOBAL_STORE.
AssignStore_Global(options) == [store |-> GLOBAL_STORE] @@ options

\* Mutant: the store is not assigned.
AssignStore_None(options) == options

\* Object.assign(options, {store: options.store || GLOBAL_STORE})
AssignStore(options) ==
    [store |-> Option(options, "store", GLOBAL_STORE)] @@ options

\* Mutant: the store is assigned to a copy of the options object.
AfterAssign_Copy(options) == options

\* What Object.assign(options, {store: ...}) leaves in the caller's options
\* object: Object.assign writes into its first argument and returns it.
AfterAssign(options) == AssignStore(options)

\* args = []: a is <<>> when the caller leaves args out and <<list>> when
\* the caller passes the array list.
DefaultArgs(a) == IF a = <<>> THEN <<>> ELSE a[1]

\* Mutant: only the store reaches uniqueFactory.
UniqueArgs_StoreOnly(fn, a, options, n) ==
    /\ pc = "idle"
    /\ gen' = <<uniqueFactory(fn,
                   [store |-> Option(options, "store", GLOBAL_STORE)])>>
    /\ passed' = <<"unique", options, a>>
    /\ callerExclude' =
          AfterMap(Option(options, "exclude", <<>>), StringifierOf(options))
    /\ callerOptions' = AfterAssign(options)
    /\ args' = DefaultArgs(a)
    /\ EnterWithin(gen'[1], n)
    /\ UNCHANGED <<stores, returned>>

\* unique(fn, args, options): builds a generator on the assigned options and
\* applies it to args at once.
UniqueArgs(fn, a, options, n) ==
    /\ pc = "idle"
    /\ gen' = <<uniqueFactory(fn, AssignStore(options))>>
    /\ passed' = <<"unique", options, a>>
    /\ callerExclude' =
          AfterMap(Option(options, "exclude", <<>>), StringifierOf(options))
    /\ callerOptions' = AfterAssign(options)
    /\ args' = DefaultArgs(a)
    /\ EnterWithin(gen'[1], n)
    /\ UNCHANGED <<stores, returned>>

\* unique(fn, undefined, options)
UniqueWithin(fn, options, n) == UniqueArgs(fn, <<>>, options, n)

Unique(fn, options) == UniqueWithin(fn, options, MaxCalls)

\* ------------------------------------------------------------------ the loop

\* Mutant: the start time is not subtracted.
Elapsed_Absolute(now, start) == now

\* duration = now - startTime
Elapsed(now, start) == now - start

\* Mutant: the time budget is exceeded only beyond maxTime.
TimeExceeded_Strict(dur, maxTime) == dur > maxTime

\* duration >= maxTime
TimeExceeded(dur, maxTime) == dur >= maxTime

\* Mutant: one attempt too many.
RetriesExceeded_Late(iterations, maxRetries) == iterations > maxRetries

\* Mutant: the retry budget is never exceeded.
RetriesExceeded_Never(iterations, maxRetries) == FALSE

\* currentIterations >= maxRetries
RetriesExceeded(iterations, maxRetries) == iterations >= maxRetries

\* now = Date.now(); duration = now - startTime; if (duration >= maxTime) throw
ThrowMaxTime ==
    /\ pc = "check"
    /\ LET g == gen[1]
           dur == Elapsed(clock, startTime)
       IN /\ TimeExceeded(dur, g.maxTime)
          /\ duration' = dur
          /\ outcome' = Thrown(createErrorMessage(
                 "Exceeded maxTime: " \o ToString(g.maxTime),
                 Cardinality(stores[g.store]), dur, currentIterations))
    /\ pc' = "done"
    /\ UNCHANGED <<stores, gen, clock, currentIterations, startTime, result,
                   tmpResult, invocations, before, rejects, passed, returned,
                   calls,
                   args, received, candidates, callerExclude, callerOptions>>

\* Mutant: the retry budget is checked without regard to the time budget.
ThrowMaxTries_Unordered ==
    /\ pc = "check"
    /\ LET g == gen[1]
           dur == Elapsed(clock, startTime)
       IN /\ RetriesExceeded(currentIterations, g.maxRetries)
          /\ duration' = dur
          /\ outcome' = Thrown(createErrorMessage(
                 "Exceeded maxTries: " \o ToString(g.maxRetries),
                 Cardinality(stores[g.store]), dur, currentIterations))
    /\ pc' = "done"
    /\ UNCHANGED <<stores, gen, clock, currentIterations, startTime, result,
                   tmpResult, invocations, before, rejects, passed, returned,
                   calls,
                   args, received, candidates, callerExclude, callerOptions>>

\* if (currentIterations >= maxRetries) throw
ThrowMaxTries ==
    /\ pc = "check"
    /\ LET g == gen[1]
           dur == Elapsed(clock, startTime)
       IN /\ ~TimeExceeded(dur, g.maxTime)
          /\ RetriesExceeded(currentIterations, g.maxRetries)
          /\ duration' = dur
          /\ outcome' = Thrown(createErrorMessage(
                 "Exceeded maxTries: " \o ToString(g.maxRetries),
                 Cardinality(stores[g.store]), dur, currentIterations))
    /\ pc' = "done"
    /\ UNCHANGED <<stores, gen, clock, currentIterations, startTime, result,
                   tmpResult, invocations, before, rejects, passed, returned,
                   calls,
                   args, received, candidates, callerExclude, callerOptions>>

\* Both checks pass: the loop goes on to invoke fn.
PassChecks ==
    /\ pc = "check"
    /\ LET g == gen[1]
           dur == Elapsed(clock, startTime)
       IN /\ ~TimeExceeded(dur, g.maxTime)
          /\ ~RetriesExceeded(currentIterations, g.maxRetries)
          /\ duration' = dur
    /\ pc' = "invoke"
    /\ UNCHANGED <<stores, gen, clock, currentIterations, startTime, result,
                   tmpResult, outcome, invocations, before, rejects, passed,
                   returned, calls,
                   args, received, candidates, callerExclude, callerOptions>>

\* Mutant: fn is called without arguments.
Arguments_None(a) == <<>>

\* fn.apply(null, args): the arguments fn receives.
Arguments(a) == a

\* Mutant: the attempt is not counted.
Invoke_Uncounted ==
    /\ pc = "invoke"
    /\ LET g == gen[1]
       IN \E v \in Results(g.fn, Arguments(args)) :
            /\ result' = v
            /\ tmpResult' = Apply(g.stringifier, v)
            /\ clock' = clock + g.fn.step
            /\ candidates' = Append(candidates, v)
    /\ received' = Append(received, Arguments(args))
    /\ invocations' = invocations + 1
    /\ pc' = "test"
    /\ UNCHANGED <<stores, gen, currentIterations, startTime, duration,
                   outcome, before, rejects, passed, returned, calls, args,
                   callerExclude, callerOptions>>

\* result = fn.apply(null, args); tmpResult = stringifier(result);
\* currentIterations++
Invoke ==
    /\ pc = "invoke"
    /\ LET g == gen[1]
       IN \E v \in Results(g.fn, Arguments(args)) :
            /\ result' = v
            /\ tmpResult' = Apply(g.stringifier, v)
            /\ clock' = clock + g.fn.step
            /\ candidates' = Append(candidates, v)
    /\ received' = Append(received, Arguments(args))
    /\ currentIterations' = currentIterations + 1
    /\ invocations' = invocations + 1
    /\ pc' = "test"
    /\ UNCHANGED <<stores, gen, startTime, duration, outcome, before,
                   rejects, passed, returned, calls, args, callerExclude, callerOptions>>

\* Mutant: the membership test on the store is left out.
Acceptable_NoStoreTest(set, exclude, tmp) == ~Includes(exclude, tmp)

\* Mutant: the membership test on the exclude list is left out.
Acceptable_NoExcludeTest(set, exclude, tmp) == ~Has(set, tmp)

\* Mutant: besides the store, the library remembers what it has returned.
Acceptable_Remembering(set, exclude, tmp) ==
    /\ ~Has(set, tmp)
    /\ ~Includes(exclude, tmp)
    /\ \A s \in StoreIds : tmp \notin BagToSet(returned[s])

\* Mutant: the store is asked for the value the operation produced as well
\* as for its normalized form.
Acceptable_AnyForm(set, exclude, tmp) ==
    ~Has(set, tmp) /\ ~Has(set, result) /\ ~Includes(exclude, tmp)

\* Mutant: the store is asked for the value the operation produced.
Acceptable_RawInStore(set, exclude, tmp) ==
    ~Has(set, result) /\ ~Includes(exclude, tmp)

\* !store.has(tmpResult) && !exclude.includes(tmpResult)
Acceptable(set, exclude, tmp) == ~Has(set, tmp) /\ ~Includes(exclude, tmp)

\* Mutant: the normalized form is returned.
ReturnValue_Normalized(res, tmp) == tmp

\* return result
ReturnValue(res, tmp) == res

\* Mutant: the time budget is looked at once more before the value is
\* returned.
Accept_Timed ==
    /\ pc = "test"
    /\ LET g == gen[1]
           dur == Elapsed(clock, startTime)
       IN /\ Acceptable(stores[g.store], g.exclude, tmpResult)
          /\ IF TimeExceeded(dur, g.maxTime)
               THEN /\ outcome' = Thrown(createErrorMessage(
                           "Exceeded maxTime: " \o ToString(g.maxTime),
                           Cardinality(stores[g.store]), dur,
                           currentIterations))
                    /\ UNCHANGED <<stores, returned>>
               ELSE /\ stores' = [stores EXCEPT
                           ![g.store] = Add(@, tmpResult)]
                    /\ returned' = [returned EXCEPT
                           ![g.store] =
                               @ (+) SetToBag({Apply(g.stringifier, result)})]
                    /\ outcome' = Returned(ReturnValue(result, tmpResult))
    /\ pc' = "done"
    /\ UNCHANGED <<gen, clock, locals, invocations, before, rejects, passed,
                   calls,
                   args, received, candidates, callerExclude, callerOptions>>

\* Mutant: the candidate is tested against the store as it was when the
\* call began.
Accept_Snapshot ==
    /\ pc = "test"
    /\ LET g == gen[1]
       IN /\ Acceptable(before[g.store], g.exclude, tmpResult)
          /\ stores' = [stores EXCEPT ![g.store] = Add(@, tmpResult)]
          /\ returned' = [returned EXCEPT
                 ![g.store] = @ (+) SetToBag({Apply(g.stringifier, result)})]
    /\ outcome' = Returned(ReturnValue(result, tmpResult))
    /\ pc' = "done"
    /\ UNCHANGED <<gen, clock, locals, invocations, before, rejects, passed,
                   calls,
                   args, received, candidates, callerExclude, callerOptions>>

\* Mutant: the raw result is stored.
Accept_StoringRaw ==
    /\ pc = "test"
    /\ LET g == gen[1]
       IN /\ Acceptable(stores[g.store], g.exclude, tmpResult)
          /\ stores' = [stores EXCEPT ![g.store] = Add(@, result)]
          /\ returned' = [returned EXCEPT
                 ![g.store] = @ (+) SetToBag({Apply(g.stringifier, result)})]
    /\ outcome' = Returned(ReturnValue(result, tmpResult))
    /\ pc' = "done"
    /\ UNCHANGED <<gen, clock, locals, invocations, before, rejects, passed,
                   calls,
                   args, received, candidates, callerExclude, callerOptions>>

\* store.add(tmpResult); break; return result
Accept ==
    /\ pc = "test"
    /\ LET g == gen[1]
       IN /\ Acceptable(stores[g.store], g.exclude, tmpResult)
          /\ stores' = [stores EXCEPT ![g.store] = Add(@, tmpResult)]
          /\ returned' = [returned EXCEPT
                 ![g.store] = @ (+) SetToBag({Apply(g.stringifier, result)})]
    /\ outcome' = Returned(ReturnValue(result, tmpResult))
    /\ pc' = "done"
    /\ UNCHANGED <<gen, clock, locals, invocations, before, rejects, passed,
                   calls,
                   args, received, candidates, callerExclude, callerOptions>>

\* Mutant: the loop may start over whatever the candidate is.
Reject_Any ==
    /\ pc = "test"
    /\ LET g == gen[1]
       IN rejects' =
                [stored |-> rejects.stored +
                     (IF Has(stores[g.store], tmpResult) THEN 1 ELSE 0),
                 excluded |-> rejects.excluded +
                     (IF Includes(g.exclude, tmpResult) THEN 1 ELSE 0)]
    /\ pc' = "check"
    /\ UNCHANGED <<stores, gen, clock, locals, outcome, invocations, before,
                   passed, returned, calls,
                   args, received, candidates, callerExclude, callerOptions>>

\* Mutant: the candidate is stored before it is tested.
Reject_Storing ==
    /\ pc = "test"
    /\ LET g == gen[1]
       IN /\ ~Acceptable(stores[g.store], g.exclude, tmpResult)
          /\ stores' = [stores EXCEPT ![g.store] = Add(@, tmpResult)]
          /\ rejects' =
                [stored |-> rejects.stored +
                     (IF Has(stores[g.store], tmpResult) THEN 1 ELSE 0),
                 excluded |-> rejects.excluded +
                     (IF Includes(g.exclude, tmpResult) THEN 1 ELSE 0)]
    /\ pc' = "check"
    /\ UNCHANGED <<gen, clock, locals, outcome, invocations, before, passed,
                   returned, calls,
                   args, received, candidates, callerExclude, callerOptions>>

\* The candidate is a duplicate or excluded: the loop starts over.
Reject ==
    /\ pc = "test"
    /\ LET g == gen[1]
       IN /\ ~Acceptable(stores[g.store], g.exclude, tmpResult)
          /\ rejects' =
                [stored |-> rejects.stored +
                     (IF Has(stores[g.store], tmpResult) THEN 1 ELSE 0),
                 excluded |-> rejects.excluded +
                     (IF Includes(g.exclude, tmpResult) THEN 1 ELSE 0)]
    /\ pc' = "check"
    /\ UNCHANGED <<stores, gen, clock, locals, outcome, invocations, before,
                   passed, returned, calls,
                   args, received, candidates, callerExclude, callerOptions>>

\* The caller takes the value or catches the error; the call's locals are
\* gone.
Finish ==
    /\ pc = "done"
    /\ pc' = "idle"
    /\ clock' = 0
    /\ currentIterations' = 0
    /\ startTime' = 0
    /\ duration' = 0
    /\ result' = Undefined
    /\ tmpResult' = Undefined
    /\ outcome' = NoOutcome
    /\ invocations' = 0
    /\ before' = stores
    /\ rejects' = NoRejects
    /\ args' = <<>>
    /\ received' = <<>>
    /\ candidates' = <<>>
    /\ UNCHANGED <<stores, gen, passed, returned, calls, callerExclude, callerOptions>>

Next ==
    \/ \E in \in Inputs : UniqueFactory(in[1], in[2])
    \/ Call
    \/ \E in \in Inputs : Unique(in[1], in[2])
    \/ ThrowMaxTime
    \/ ThrowMaxTries
    \/ PassChecks
    \/ Invoke
    \/ Accept
    \/ Reject
    \/ Finish

Spec == Init /\ [][Next]_vars

\* ------------------------------------------------------------------ properties

\* The generated function of the running call, and how the call stands.
G == gen[1]
InCall == pc \in {"check", "invoke", "test", "done"}
Succeeded == pc = "done" /\ outcome.kind = "returned"
Failed == pc = "done" /\ outcome.kind = "thrown"

\* The normalized form of v under the stringifier of g, and the normalized
\* forms of the exclude list the caller gave g.
NormalForm(g, v) == Apply(g.stringifier, v)
RawExclude(g) == Option(g.options, "exclude", <<>>)
NormalizedExclude(g) ==
    {NormalForm(g, RawExclude(g)[i]) : i \in 1..Len(RawExclude(g))}

\* C1 (uniqueness): on every store, each normalized form has been returned
\* by at most one successful call, whichever generators sharing the store
\* made the calls, and the normalized form of a value just returned is not
\* the normalized form of any element of the exclude list of its generator.
C1_Uniqueness ==
    /\ \A s \in StoreIds : \A n \in BagToSet(returned[s]) :
            CopiesIn(n, returned[s]) = 1
    /\ Succeeded => NormalForm(G, outcome.value) \notin NormalizedExclude(G)

\* A second successful call on one store, made after a duplicate candidate
\* was rejected, by a generator that has an exclude list.
C1_Witness ==
    /\ Succeeded
    /\ BagCardinality(returned[G.store]) >= 2
    /\ rejects.stored >= 1
    /\ RawExclude(G) # <<>>

\* C2 (store population): when a call has succeeded, the store has exactly
\* one element more than when the call began, and that element is the
\* normalized form of the value returned.
C2_StorePopulation ==
    Succeeded =>
        /\ Cardinality(stores[G.store]) = Cardinality(before[G.store]) + 1
        /\ NormalForm(G, outcome.value) \in stores[G.store]
        /\ stores[G.store] \ before[G.store] = {NormalForm(G, outcome.value)}

\* A successful call under JSON.stringify on a store that was not empty: the
\* element inserted is a string that differs from the value returned.
C2_Witness ==
    /\ Succeeded
    /\ G.stringifier = "JSON.stringify"
    /\ before[G.store] # {}
    /\ outcome.value \notin stores[G.store]
    /\ JSONstringify(outcome.value) \in stores[G.store] \ before[G.store]

\* C3 (exclusion precedence): during and after a call, no normalized form of
\* an element of the generator's exclude list has been inserted into the
\* store by the call, and the value returned is not an excluded one.
C3_ExclusionPrecedence ==
    InCall =>
        /\ (stores[G.store] \ before[G.store]) \cap NormalizedExclude(G) = {}
        /\ Succeeded => NormalForm(G, outcome.value) \notin NormalizedExclude(G)
        /\ Succeeded => outcome.value \notin
               {v \in Values : NormalForm(G, v) \in NormalizedExclude(G)}

\* A candidate that is excluded and not in the store has been rejected (the
\* loop is back at its budget checks), under JSON.stringify, where the
\* excluded element and the candidate are different objects.
C3_Witness ==
    /\ pc = "check"
    /\ currentIterations >= 1
    /\ tmpResult \in NormalizedExclude(G)
    /\ tmpResult \notin stores[G.store]
    /\ result = ObjA1
    /\ stores[G.store] = before[G.store]

MaxTimeCode(g) == "Exceeded maxTime: " \o ToString(g.maxTime)
MaxTriesCode(g) == "Exceeded maxTries: " \o ToString(g.maxRetries)

\* C4 (retry budget): a call with maxRetries = N >= 1 that has ended, all of
\* whose candidates were rejected as already stored and whose elapsed time
\* stayed below maxTime, has failed with the retry-budget error after exactly
\* N invocations; it reports N attempts and the store is as large as before.
C4_RetryBudget ==
    (/\ pc = "done"
     /\ G.maxRetries >= 1
     /\ rejects.stored = invocations
     /\ clock - startTime < G.maxTime)
    => /\ outcome.kind = "thrown"
       /\ outcome.error.code = MaxTriesCode(G)
       /\ invocations = G.maxRetries
       /\ outcome.error.currentIterations = G.maxRetries
       /\ Cardinality(stores[G.store]) = Cardinality(before[G.store])
       /\ outcome.error.storeSize = Cardinality(before[G.store])

\* The repository's test: maxRetries 3, the constant operation 1 and a store
\* seeded with '1'; the call has failed after 3 invocations.
C4_Witness ==
    /\ Failed
    /\ G.maxRetries = 3
    /\ G.fn.vals = {Num1}
    /\ before[G.store] = {Str1}
    /\ rejects.stored = 3
    /\ invocations = 3
    /\ outcome.error.code = "Exceeded maxTries: 3"

CeilDiv(a, b) == (a + b - 1) \div b

\* C5 (time budget): a call with maxTime = T whose operation takes d >= 1 ms
\* per invocation and all of whose candidates were rejected, with
\* ceil(T/d) <= maxRetries, has failed with the time-budget error after
\* exactly ceil(T/d) invocations; it reports that many attempts and the
\* elapsed time d * ceil(T/d), and the stores are as before the call.
C5_TimeBudget ==
    (/\ Failed
     /\ G.fn.step >= 1
     /\ CeilDiv(G.maxTime, G.fn.step) <= G.maxRetries)
    => /\ outcome.error.code = MaxTimeCode(G)
       /\ invocations = CeilDiv(G.maxTime, G.fn.step)
       /\ outcome.error.currentIterations = CeilDiv(G.maxTime, G.fn.step)
       /\ outcome.error.duration = G.fn.step * CeilDiv(G.maxTime, G.fn.step)
       /\ stores = before

\* The repository's test: maxTime 100 and an operation that takes 10 ms; the
\* call has failed after 10 invocations with a duration of 100 ms.
C5_Witness ==
    /\ Failed
    /\ G.maxTime = 100
    /\ G.fn.step = 10
    /\ invocations = 10
    /\ outcome.error.code = "Exceeded maxTime: 100"
    /\ outcome.error.currentIterations = 10
    /\ outcome.error.duration = 100
    /\ outcome.error.storeSize = 1

\* C6 (zero budget): a call of a generator with maxRetries = 0 or
\* maxTime = 0 never invokes the operation and leaves the stores alone; it
\* ends at its first budget check with the time-budget error when
\* maxTime = 0 and with the retry-budget error otherwise.
C6_ZeroBudget ==
    (InCall /\ (G.maxRetries = 0 \/ G.maxTime = 0))
    => /\ invocations = 0
       /\ pc \in {"check", "done"}
       /\ stores = before
       /\ pc = "done" =>
             /\ outcome.kind = "thrown"
             /\ outcome.error.currentIterations = 0
             /\ outcome.error.code =
                    IF G.maxTime = 0 THEN MaxTimeCode(G) ELSE MaxTriesCode(G)

\* A call with maxRetries = 0 and maxTime > 0 has failed although the
\* operation's only value would have been accepted.
C6_Witness ==
    /\ Failed
    /\ G.maxRetries = 0
    /\ G.maxTime > 0
    /\ outcome.error.code = "Exceeded maxTries: 0"
    /\ \A v \in G.fn.vals :
          Acceptable(stores[G.store], G.exclude, NormalForm(G, v))

\* C7 (check order): the operation is invoked only after a budget check at
\* which the elapsed time was below maxTime and the attempts below
\* maxRetries; a call that failed at a check where the elapsed time had
\* reached maxTime failed with the time-budget error, also when the attempts
\* had reached maxRetries, and the retry-budget error is raised only with
\* the elapsed time below maxTime.
C7_CheckOrder ==
    /\ pc = "invoke" =>
          /\ duration < G.maxTime
          /\ clock - startTime = duration
          /\ currentIterations < G.maxRetries
    /\ Failed =>
          /\ clock - startTime >= G.maxTime
                => outcome.error.code = MaxTimeCode(G)
          /\ outcome.error.code = MaxTriesCode(G)
                => /\ clock - startTime < G.maxTime
                   /\ currentIterations >= G.maxRetries

\* After at least one invocation both ceilings are reached at one budget
\* check, and the call has failed with the time-budget error.
C7_Witness ==
    /\ Failed
    /\ invocations >= 1
    /\ clock - startTime >= G.maxTime
    /\ currentIterations >= G.maxRetries
    /\ outcome.error.code = MaxTimeCode(G)

\* C8 (failure leaves the store): while a call runs its loop the stores are
\* as they were when it began; a failed call leaves them so and returns no
\* value; a successful call has changed only its own store, by one element.
C8_FailureLeavesStore ==
    /\ pc \in {"check", "invoke", "test"} => stores = before
    /\ Failed => stores = before /\ outcome.value = Undefined
    /\ Succeeded =>
          /\ \A s \in StoreIds \ {G.store} : stores[s] = before[s]
          /\ before[G.store] \subseteq stores[G.store]
          /\ Cardinality(stores[G.store] \ before[G.store]) = 1

\* A call has failed after rejecting candidates that were excluded and not
\* stored: none of them is in the store.
C8_Witness ==
    /\ Failed
    /\ rejects.excluded >= 2
    /\ rejects.stored = 0
    /\ tmpResult \notin stores[G.store]

\* C9 (the raw candidate is returned): a successful call returns the result
\* of its last invocation of the operation, one of the operation's values,
\* and what the store received is the stringifier's output for it.
C9_ReturnsRaw ==
    Succeeded =>
        /\ outcome.value = result
        /\ outcome.value \in G.fn.vals
        /\ tmpResult = NormalForm(G, result)
        /\ stores[G.store] \ before[G.store] = {tmpResult}

\* Under JSON.stringify an object was returned, and the store received the
\* string of its structure.
C9_Witness ==
    /\ Succeeded
    /\ G.stringifier = "JSON.stringify"
    /\ outcome.value = ObjA1
    /\ JSString("{\"key\":\"a\"}") \in stores[G.store] \ before[G.store]

\* C10 (global sharing): a call made by unique without options.store tests
\* and inserts in GLOBAL_STORE and touches no other store; every normalized
\* form returned on GLOBAL_STORE was returned once and is an element of it.
C10_GlobalSharing ==
    /\ \A n \in BagToSet(returned[GLOBAL_STORE]) :
          /\ CopiesIn(n, returned[GLOBAL_STORE]) = 1
          /\ n \in stores[GLOBAL_STORE]
    /\ (InCall /\ passed[1] = "unique" /\ "store" \notin DOMAIN passed[2])
        => /\ G.store = GLOBAL_STORE
           /\ \A s \in StoreIds \ {GLOBAL_STORE} : stores[s] = before[s]
           /\ Succeeded =>
                 /\ NormalForm(G, outcome.value) \notin before[GLOBAL_STORE]
                 /\ NormalForm(G, outcome.value) \in stores[GLOBAL_STORE]

\* The second successful unique call without a store, made after a candidate
\* that the first call had stored was rejected.
C10_Witness ==
    /\ Succeeded
    /\ passed[1] = "unique"
    /\ "store" \notin DOMAIN passed[2]
    /\ BagCardinality(returned[GLOBAL_STORE]) >= 2
    /\ rejects.stored >= 1
    /\ rejects.excluded = 0

\* C15 (what a budget error reports): a call that has failed names the
\* ceiling that was hit with its configured value, maxTime when the elapsed
\* time had reached it and maxRetries otherwise, and reports the size of
\* the store at the failure, the number of invocations of the operation in
\* this call and the milliseconds elapsed at the failing check.
C15_ErrorReport ==
    Failed =>
        /\ outcome.error.code =
              IF Elapsed(clock, startTime) >= G.maxTime
                THEN "Exceeded maxTime: " \o ToString(G.maxTime)
                ELSE "Exceeded maxTries: " \o ToString(G.maxRetries)
        /\ outcome.error.storeSize = Cardinality(stores[G.store])
        /\ outcome.error.currentIterations = invocations
        /\ outcome.error.duration = clock - startTime
        /\ outcome.error.text =
              ErrorText(outcome.error.code, Cardinality(stores[G.store]),
                        clock - startTime, invocations)

\* maxRetries 3 on a store of size 1 with the clock standing still: the
\* message says maxTries 3, 1 entry, retried 3 and 0 ms.
C15_Witness ==
    /\ Failed
    /\ G.maxRetries = 3
    /\ Cardinality(stores[G.store]) = 1
    /\ G.fn.step = 0
    /\ outcome.error.text =
          "\n  Exceeded maxTries: 3 for uniqueness check.\n    \n"
          \o "Found 1 unique entries before throwing error.\n"
          \o "retried: 3\n"
          \o "total time: 0ms\n\n"
          \o "May not be able to generate any more unique values with current settings.\n"
          \o "Try adjusting maxTime or maxRetries parameters."

\* The number of unique calls in one behaviour of SpecIsolation.
MaxIsolationCalls == 3

\* unique(fn, [], options) with no store, the caller's Set or a second Set
\* of the caller's, under the largest budgets.
IsolationOptions ==
    {a @@ [maxRetries |-> MaxRetriesOpt, maxTime |-> MaxTimeOpt] :
        a \in StoreOpts \cup {[store |-> OtherStore]}}
IsolationInputs == (ValueFns \cup TimedFns) \X IsolationOptions

NextIsolation ==
    \/ \E in \in IsolationInputs :
          UniqueWithin(in[1], in[2], MaxIsolationCalls)
    \/ ThrowMaxTime
    \/ ThrowMaxTries
    \/ PassChecks
    \/ Invoke
    \/ Accept
    \/ Reject
    \/ Finish

SpecIsolation == Init /\ [][NextIsolation]_vars

\* C11 (explicit-store isolation): a unique call given options.store works
\* on that Set and not on GLOBAL_STORE: every other store, GLOBAL_STORE
\* included, stays as it was when the call began, a candidate is rejected
\* only when its normalized form is in the given Set or excluded, and a
\* candidate that is in neither is accepted whatever the other stores hold.
C11_ExplicitStoreIsolation ==
    (InCall /\ passed[1] = "unique" /\ "store" \in DOMAIN passed[2])
    => /\ G.store = passed[2].store
       /\ G.store # GLOBAL_STORE
       /\ \A s \in StoreIds \ {G.store} : stores[s] = before[s]
       /\ (pc = "check" /\ currentIterations >= 1)
             => (tmpResult \in stores[G.store] \/ Includes(G.exclude, tmpResult))
       /\ (pc = "done" /\ invocations >= 1 /\ outcome.kind = "thrown")
             => (tmpResult \in stores[G.store] \/ Includes(G.exclude, tmpResult))
       /\ Succeeded => NormalForm(G, outcome.value) \notin before[G.store]

\* A unique call on the caller's second Set has returned, at its first
\* attempt, a value that a unique call on GLOBAL_STORE and a unique call on
\* the caller's first Set returned before.
C11_Witness ==
    /\ Succeeded
    /\ passed[1] = "unique"
    /\ G.store = OtherStore
    /\ invocations = 1
    /\ NormalForm(G, outcome.value) \in BagToSet(returned[GLOBAL_STORE])
    /\ NormalForm(G, outcome.value) \in BagToSet(returned[CallerStore])
    /\ NormalForm(G, outcome.value) \in stores[GLOBAL_STORE]
    /\ NormalForm(G, outcome.value) \in stores[CallerStore]

\* ------------------------------------------------------------------ two generators

\* The number of calls in one behaviour of SpecPrivate.
MaxPrivateCalls == 3

\* Mutant: the default store is one Set for all generators.
NewSetFor_Shared(gens) == NewSet

\* store = new Set(): a Set that none of the generators gens has.
NewSetFor(gens) ==
    IF \E i \in 1..Len(gens) : gens[i].store = NewSet
      THEN NewSet2 ELSE NewSet

\* const h = uniqueFactory(fn, options), built while the generator g is
\* kept: h is now the generator in use, g the other one.
UniqueFactoryBeside(fn, options) ==
    /\ pc = "idle"
    /\ Len(gen) = 1
    /\ calls < MaxPrivateCalls
    /\ LET h == uniqueFactory(fn, options)
           s == NewSetFor(gen)
       IN IF "store" \in DOMAIN options
            THEN /\ gen' = <<h>> \o gen
                 /\ UNCHANGED <<stores, returned>>
            ELSE /\ gen' = <<[h EXCEPT !.store = s]>> \o gen
                 /\ stores' = [stores EXCEPT ![s] = {}]
                 /\ returned' = [returned EXCEPT ![s] = EmptyBag]
    /\ passed' = <<"uniqueFactory", options>>
    /\ callerExclude' =
          AfterMap(Option(options, "exclude", <<>>), StringifierOf(options))
    /\ callerOptions' = options
    /\ UNCHANGED <<clock, pc, locals, outcome, invocations, before, rejects,
                   calls,
                   args, received, candidates>>

\* A call of the other generator, which is the one in use from now on.
CallOther ==
    /\ pc = "idle"
    /\ Len(gen) = 2
    /\ gen' = <<gen[2], gen[1]>>
    /\ passed' = <<"uniqueFactory", gen[2].options>>
    /\ UNCHANGED <<callerExclude, callerOptions>>
    /\ args' = <<>>
    /\ EnterWithin(gen'[1], MaxPrivateCalls)
    /\ UNCHANGED <<stores, returned>>

\* Generators are built without options.store; unique is called without
\* it, too.
PrivateOptions ==
    {d @@ [maxRetries |-> MaxRetriesOpt, maxTime |-> MaxTimeOpt] :
        d \in {<<>>, [exclude |-> <<ObjA2>>]}}
PrivateInputs ==
    (ValueFns \cup {[vals |-> {Num1}, step |-> MaxStep]}) \X PrivateOptions

NextPrivate ==
    \/ \E in \in PrivateInputs : UniqueFactory(in[1], in[2])
    \/ \E in \in PrivateInputs : UniqueFactoryBeside(in[1], in[2])
    \/ CallWithin(MaxPrivateCalls)
    \/ CallOther
    \/ \E in \in PrivateInputs :
          UniqueWithin(in[1], in[2], MaxPrivateCalls)
    \/ ThrowMaxTime
    \/ ThrowMaxTries
    \/ PassChecks
    \/ Invoke
    \/ Accept
    \/ Reject
    \/ Finish

SpecPrivate == Init /\ [][NextPrivate]_vars

\* C12 (default store privacy): a generator built by uniqueFactory without
\* options.store has a Set that no other generator has and that holds
\* exactly the normalized forms this generator has returned; its calls
\* reject a candidate only when this generator returned its normalized form
\* before or it is excluded, and they leave every other store, GLOBAL_STORE
\* included, as it was.
C12_DefaultStorePrivacy ==
    (InCall /\ passed[1] = "uniqueFactory" /\ "store" \notin DOMAIN G.options)
    => /\ G.store \in {NewSet, NewSet2}
       /\ \A i \in 2..Len(gen) : gen[i].store # G.store
       /\ stores[G.store] = BagToSet(returned[G.store])
       /\ \A s \in StoreIds \ {G.store} : stores[s] = before[s]
       /\ (pc = "check" /\ currentIterations >= 1)
             => \/ tmpResult \in BagToSet(returned[G.store])
                \/ Includes(G.exclude, tmpResult)

\* One of two generators built without a store has returned, at its first
\* attempt, a value that the other generator returned before and that
\* GLOBAL_STORE holds; the other generator's Set and GLOBAL_STORE are as
\* they were.
C12_Witness ==
    /\ Succeeded
    /\ passed[1] = "uniqueFactory"
    /\ Len(gen) = 2
    /\ invocations = 1
    /\ NormalForm(G, outcome.value) \in BagToSet(returned[gen[2].store])
    /\ NormalForm(G, outcome.value) \in stores[GLOBAL_STORE]
    /\ stores[gen[2].store] = before[gen[2].store]

\* ------------------------------------------------------------------ repeated calls

\* The call returns or throws to its caller.  Nothing clears the memory its
\* locals had: the next call's first statements set them anew.
Return ==
    /\ pc = "done"
    /\ pc' = "idle"
    /\ result' = Undefined
    /\ tmpResult' = Undefined
    /\ outcome' = NoOutcome
    /\ invocations' = 0
    /\ before' = stores
    /\ rejects' = NoRejects
    /\ args' = <<>>
    /\ received' = <<>>
    /\ candidates' = <<>>
    /\ UNCHANGED <<stores, gen, clock, currentIterations, startTime, duration,
                   passed, returned, calls, callerExclude, callerOptions>>

\* Generators on the caller's store under every pair of budgets, and
\* generators on a Set of their own under the largest budgets.
RepeatInputs ==
    ((ValueFns \cup TimedFns) \X BudgetOptions)
        \cup (ValueFns \X
                 {[maxRetries |-> MaxRetriesOpt, maxTime |-> MaxTimeOpt]})

NextRepeat ==
    \/ \E in \in RepeatInputs : UniqueFactory(in[1], in[2])
    \/ CallWithin(MaxCalls)
    \/ ThrowMaxTime
    \/ ThrowMaxTries
    \/ PassChecks
    \/ Invoke
    \/ Accept
    \/ Reject
    \/ Return

SpecRepeat == Init /\ [][NextRepeat]_vars

\* C13 (counters are local to a call): at its first budget check every call
\* has 0 attempts and 0 ms elapsed, whatever earlier calls of the generator
\* used; throughout a call the attempt counter is the number of invocations
\* of the operation in this call, and a call that fails with the
\* retry-budget error has invoked the operation maxRetries times.
C13_CountersPerCall ==
    InCall =>
        /\ currentIterations = invocations
        /\ (pc = "check" /\ invocations = 0)
              => /\ currentIterations = 0
                 /\ Elapsed(clock, startTime) = 0
        /\ (Failed /\ outcome.error.code = MaxTriesCode(G))
              => invocations = G.maxRetries
        /\ Elapsed(clock, startTime) = invocations * G.fn.step

\* The second call of a generator on a Set of its own, whose first call
\* returned a value: it has failed with the retry-budget error after
\* maxRetries >= 2 invocations.
C13_Witness ==
    /\ Failed
    /\ calls = 2
    /\ G.store = NewSet
    /\ BagCardinality(returned[G.store]) = 1
    /\ before[G.store] = BagToSet(returned[G.store])
    /\ G.maxRetries >= 2
    /\ outcome.error.code = MaxTriesCode(G)
    /\ invocations = G.maxRetries

\* ------------------------------------------------------------------ an operation that throws

\* What the caller catches when fn itself throws: fn's error, not a message
\* of createErrorMessage.
OperationError ==
    [code |-> "thrown by fn", storeSize |-> 0, duration |-> 0,
     currentIterations |-> 0, text |-> "thrown by fn"]

\* Operations that may throw at any invocation: one that never returns a
\* value, and one that returns 1 when it does not throw.
FaultyFns ==
    {[vals |-> V, step |-> d, throws |-> TRUE] :
        V \in {{}, {Num1}}, d \in 0..MaxStep}
FaultyInputs == FaultyFns \X BudgetOptions

\* Mutant: the loop catches what fn throws and tries again.
InvokeThrows_Caught ==
    /\ pc = "invoke"
    /\ "throws" \in DOMAIN gen[1].fn
    /\ clock' = clock + gen[1].fn.step
    /\ currentIterations' = currentIterations + 1
    /\ invocations' = invocations + 1
    /\ received' = Append(received, Arguments(args))
    /\ pc' = "check"
    /\ UNCHANGED <<stores, gen, startTime, duration, result, tmpResult,
                   outcome, before, rejects, passed, returned, calls, args,
                   candidates, callerExclude, callerOptions>>

\* result = fn.apply(null, args) where fn throws: no statement of the loop
\* catches it, so the call ends with fn's error before tmpResult is set and
\* before currentIterations++.
InvokeThrows ==
    /\ pc = "invoke"
    /\ "throws" \in DOMAIN gen[1].fn
    /\ clock' = clock + gen[1].fn.step
    /\ invocations' = invocations + 1
    /\ outcome' = Thrown(OperationError)
    /\ received' = Append(received, Arguments(args))
    /\ pc' = "done"
    /\ UNCHANGED <<stores, gen, currentIterations, startTime, duration,
                   result, tmpResult, before, rejects, passed, returned,
                   calls, args, candidates, callerExclude, callerOptions>>

NextFaulty ==
    \/ \E in \in FaultyInputs : UniqueFactory(in[1], in[2])
    \/ CallWithin(MaxCalls)
    \/ \E in \in FaultyInputs : UniqueWithin(in[1], in[2], MaxCalls)
    \/ ThrowMaxTime
    \/ ThrowMaxTries
    \/ PassChecks
    \/ Invoke
    \/ InvokeThrows
    \/ Accept
    \/ Reject
    \/ Finish

SpecFaulty == Init /\ [][NextFaulty]_vars

\* C14 (a fault of the operation propagates): when the operation has thrown
\* in a call, the call has ended with that error and no value, the stores
\* are as they were when the call began, and the throwing invocation was
\* the last one and was not counted as an attempt; a call of an operation
\* that always throws invokes it at most once, and ends with a budget error
\* only when it never invoked it.
C14_FaultPropagates ==
    InCall =>
        /\ outcome.error = OperationError
              => /\ pc = "done"
                 /\ outcome = Thrown(OperationError)
                 /\ stores = before
                 /\ invocations = currentIterations + 1
        /\ outcome.error # OperationError => invocations = currentIterations
        /\ G.fn.vals = {}
              => /\ invocations <= 1
                 /\ invocations = 1 => outcome = Thrown(OperationError)
                 /\ (Failed /\ outcome.error # OperationError)
                       => invocations = 0

\* The operation has thrown at its second invocation, after a candidate was
\* rejected and with both budgets left: the call has ended with the
\* operation's error and the store is unchanged.
C14_Witness ==
    /\ Failed
    /\ outcome.error = OperationError
    /\ invocations = 2
    /\ rejects.stored = 1
    /\ currentIterations < G.maxRetries
    /\ Elapsed(clock, startTime) < G.maxTime
    /\ stores = before

\* ------------------------------------------------------------------ arguments

\* The argument lists of the calls, and the operations called with them:
\* the two operations with a body, the constant operation 1, and the
\* constant operation 1 that takes MaxStep ms.
ArgLists == {<<>>, <<Num5>>, <<StrJohn, StrDoe>>, <<StrDoe, StrJohn>>}
ArgFns ==
    {DoubleFn, JoinFn, [vals |-> {Num1}, step |-> 0],
     [vals |-> {Num1}, step |-> MaxStep]}
ArgOptions ==
    {a @@ [maxRetries |-> MaxRetriesOpt, maxTime |-> MaxTimeOpt] :
        a \in StoreOpts}

\* unique(fn), unique(fn, undefined, options) and unique(fn, list, options)
MaybeArgLists == {<<>>} \cup {<<a>> : a \in ArgLists}

\* The caller calls the generators it built; the one unique builds is not
\* handed out.
CallBuilt(a, n) ==
    /\ passed # <<>>
    /\ passed[1] = "uniqueFactory"
    /\ CallArgs(a, n)

NextArgs ==
    \/ \E fn \in ArgFns, o \in ArgOptions : UniqueFactory(fn, o)
    \/ \E a \in ArgLists : CallBuilt(a, MaxCalls)
    \/ \E fn \in ArgFns, a \in MaybeArgLists, o \in ArgOptions :
          UniqueArgs(fn, a, o, MaxCalls)
    \/ ThrowMaxTime
    \/ ThrowMaxTries
    \/ PassChecks
    \/ Invoke
    \/ Accept
    \/ Reject
    \/ Finish

SpecArgs == Init /\ [][NextArgs]_vars

\* C16 (arguments): each invocation of the operation in a call has received
\* the arguments of that call, in their order; in a call made by unique
\* these are the elements of the array args, and none when args was left
\* out; the candidate is what the operation yields for these arguments.
C16_Arguments ==
    InCall =>
        /\ Len(received) = invocations
        /\ \A i \in 1..Len(received) : received[i] = args
        /\ passed[1] = "unique"
              => args = IF passed[3] = <<>> THEN <<>> ELSE passed[3][1]
        /\ (pc = "test" \/ Succeeded) => result \in Results(G.fn, args)

\* unique(fn, ['John', 'Doe']) on a store that holds "John.Doe": the
\* operation has been invoked a second time, both times with 'John' and
\* 'Doe' in this order.
C16_Witness ==
    /\ pc = "test"
    /\ passed[1] = "unique"
    /\ passed[3] = <<(<<StrJohn, StrDoe>>)>>
    /\ G.fn = JoinFn
    /\ received = << <<StrJohn, StrDoe>>, <<StrJohn, StrDoe>> >>
    /\ result = JSString("John.Doe")
    /\ rejects.stored = 1

\* ------------------------------------------------------------------ one call as a whole

\* The ways one call g(...a) can end on a store with the contents set,
\* after iter attempts and elapsed ms: the loop of the returned function
\* run to its end, with how the call ends, the invocations of fn it made
\* and the contents of the store then.
RECURSIVE Loop(_, _, _, _, _)
Loop(g, a, set, iter, elapsed) ==
    IF TimeExceeded(elapsed, g.maxTime)
      THEN {[outcome |-> Thrown(createErrorMessage(
                             "Exceeded maxTime: " \o ToString(g.maxTime),
                             Cardinality(set), elapsed, iter)),
             invocations |-> iter, store |-> set]}
      ELSE IF RetriesExceeded(iter, g.maxRetries)
        THEN {[outcome |-> Thrown(createErrorMessage(
                               "Exceeded maxTries: " \o ToString(g.maxRetries),
                               Cardinality(set), elapsed, iter)),
               invocations |-> iter, store |-> set]}
        ELSE UNION
               {IF Acceptable(set, g.exclude, Apply(g.stringifier, v))
                  THEN {[outcome |-> Returned(v), invocations |-> iter + 1,
                         store |-> Add(set, Apply(g.stringifier, v))]}
                  ELSE Loop(g, a, set, iter + 1, elapsed + g.fn.step) :
                v \in Results(g.fn, Arguments(a))}

\* uniqueFactory(fn, options)(...a) on stores as they were when the call
\* began.
FactoryCall(fn, options, a) ==
    LET g == uniqueFactory(fn, options)
    IN Loop(g, a, before[g.store], 0, 0)

\* How the running call has ended.
Ended == [outcome |-> outcome, invocations |-> invocations,
          store |-> stores[G.store]]

\* C17 (one-shot equivalence): a call unique(fn, args, options) that has
\* ended has ended as uniqueFactory(fn, {store: S, ...options}) called once
\* with args can end from the same contents of S, where S is options.store
\* or, without it, GLOBAL_STORE: the same value or error, the same number
\* of invocations of fn, the same contents of S, and no other store
\* changed; and a call of a generator built with a store has ended as the
\* generator unique builds from these options can.
C17_OneShotEquivalence ==
    pc = "done" =>
        /\ passed[1] = "unique" =>
              LET o == passed[2]
                  S == IF "store" \in DOMAIN o THEN o.store ELSE GLOBAL_STORE
                  a == IF passed[3] = <<>> THEN <<>> ELSE passed[3][1]
              IN /\ G.store = S
                 /\ Ended \in FactoryCall(G.fn, [store |-> S] @@ o, a)
                 /\ \A s \in StoreIds \ {S} : stores[s] = before[s]
        /\ (passed[1] = "uniqueFactory" /\ "store" \in DOMAIN passed[2]) =>
              /\ Ended \in FactoryCall(G.fn, AssignStore(passed[2]), args)
              /\ \A s \in StoreIds \ {passed[2].store} : stores[s] = before[s]

\* unique(fn, ['John', 'Doe'], {store, ...}) has failed with the
\* retry-budget error on a store that held "John.Doe", after as many
\* invocations as the budget allows.
C17_Witness ==
    /\ Failed
    /\ passed[1] = "unique"
    /\ "store" \in DOMAIN passed[2]
    /\ passed[3] = <<(<<StrJohn, StrDoe>>)>>
    /\ G.fn = JoinFn
    /\ invocations = G.maxRetries
    /\ outcome.error.code = MaxTriesCode(G)

\* ------------------------------------------------------------------ the caller's hand on a store

\* The normalized forms a caller inserts.
OutsideForms == {JSONstringify(v) : v \in Values}

\* store.clear(), GLOBAL_STORE.clear(): done by the caller between calls.
Clear(s) ==
    /\ pc = "idle"
    /\ stores[s] # {}
    /\ stores' = [stores EXCEPT ![s] = {}]
    /\ before' = stores'
    /\ UNCHANGED <<gen, clock, pc, locals, outcome, invocations, rejects,
                   passed, returned, calls, args, received, candidates, callerExclude, callerOptions>>

\* store.add(v), GLOBAL_STORE.add(v): done by the caller between calls.
OutsideAdd(s, v) ==
    /\ pc = "idle"
    /\ ~Has(stores[s], v)
    /\ stores' = [stores EXCEPT ![s] = Add(@, v)]
    /\ before' = stores'
    /\ UNCHANGED <<gen, clock, pc, locals, outcome, invocations, rejects,
                   passed, returned, calls, args, received, candidates, callerExclude, callerOptions>>

\* Calls on GLOBAL_STORE and on the caller's store, the stores the caller
\* can lay hands on.
OutsideOptions ==
    {a @@ [maxRetries |-> MaxRetriesOpt, maxTime |-> MaxTimeOpt] :
        a \in StoreOpts}
OutsideInputs ==
    (ValueFns \cup {[vals |-> {Num1}, step |-> MaxStep]}) \X OutsideOptions
OutsideFactoryInputs == {in \in OutsideInputs : "store" \in DOMAIN in[2]}

NextOutside ==
    \/ \E s \in {GLOBAL_STORE, CallerStore} : Clear(s)
    \/ \E s \in {GLOBAL_STORE, CallerStore}, v \in OutsideForms :
          OutsideAdd(s, v)
    \/ \E in \in OutsideFactoryInputs : UniqueFactory(in[1], in[2])
    \/ CallWithin(MaxCalls)
    \/ \E in \in OutsideInputs : UniqueWithin(in[1], in[2], MaxCalls)
    \/ ThrowMaxTime
    \/ ThrowMaxTries
    \/ PassChecks
    \/ Invoke
    \/ Accept
    \/ Reject
    \/ Finish

SpecOutside == Init /\ [][NextOutside]_vars

\* C18 (the caller's changes to a store count at once): a call goes by
\* what its store holds when the call is made and by nothing else: a
\* returned value's normalized form was not in the store then, whoever had
\* put it there, and a candidate is rejected only when its normalized form
\* is in the store or excluded, also when it was returned before a clear;
\* and a call removes nothing from any store.
C18_OutsideChanges ==
    InCall =>
        /\ \A s \in StoreIds : before[s] \subseteq stores[s]
        /\ Succeeded => NormalForm(G, outcome.value) \notin before[G.store]
        /\ (pc = "check" /\ currentIterations >= 1)
              => \/ tmpResult \in stores[G.store]
                 \/ Includes(G.exclude, tmpResult)
        /\ pc = "test" =>
              (Has(stores[G.store], tmpResult) <=> tmpResult \in before[G.store])

\* GLOBAL_STORE was cleared, and a unique call has returned, at its first
\* attempt, a value that a unique call on GLOBAL_STORE had returned before
\* the clear.
C18_Witness ==
    /\ Succeeded
    /\ G.store = GLOBAL_STORE
    /\ invocations = 1
    /\ CopiesIn(NormalForm(G, outcome.value), returned[GLOBAL_STORE]) = 2
    /\ before[GLOBAL_STORE] = {}

\* ------------------------------------------------------------------ plain values

\* unique('plain value'), unique(1)
StrPlain == [kind |-> "string", id |-> 0, val |-> "plain value"]
PlainValues == {StrPlain, Num1}

\* A plain value is a candidate of its own: it is wrapped as the operation
\* that returns it, and gets one attempt.
ConstFn(v) == [vals |-> {v}, step |-> 0]
PlainMaxRetries == 1

\* unique(value, options): options has store, exclude and stringifier.
PlainOptions ==
    {a @@ d @@ e : a \in StoreOpts,
                   d \in {<<>>, [exclude |-> <<StrPlain>>]},
                   e \in StringifierOpts}

UniqueValue(v, options, n) ==
    /\ pc = "idle"
    /\ gen' = <<uniqueFactory(ConstFn(v),
                   [maxRetries |-> PlainMaxRetries] @@ AssignStore(options))>>
    /\ passed' = <<"unique value", options, v>>
    /\ callerExclude' =
          AfterMap(Option(options, "exclude", <<>>), StringifierOf(options))
    /\ callerOptions' = AfterAssign(options)
    /\ args' = <<>>
    /\ EnterWithin(gen'[1], n)
    /\ UNCHANGED <<stores, returned>>

\* Plain values and operations share the stores.
PlainFnInputs ==
    {[vals |-> {Num1}, step |-> d] : d \in 0..MaxStep}
        \X {a @@ [maxRetries |-> MaxRetriesOpt, maxTime |-> MaxTimeOpt] :
                a \in StoreOpts}

NextPlain ==
    \/ \E v \in PlainValues, o \in PlainOptions : UniqueValue(v, o, MaxCalls)
    \/ \E in \in PlainFnInputs : UniqueWithin(in[1], in[2], MaxCalls)
    \/ ThrowMaxTime
    \/ ThrowMaxTries
    \/ PassChecks
    \/ Invoke
    \/ Accept
    \/ Reject
    \/ Finish

SpecPlain == Init /\ [][NextPlain]_vars

MaxExhaustCalls == 4

\* Generators on a Set of their own, empty at first, for the operation
\* with the three values, and for the constant operation that takes
\* MaxStep ms.
ExhaustOptions ==
    {d @@ e @@ [maxRetries |-> MaxRetriesOpt, maxTime |-> MaxTimeOpt] :
        d \in ExcludeOpts, e \in StringifierOpts}
ExhaustInputs ==
    {[vals |-> Values, step |-> 0], [vals |-> {Num1}, step |-> MaxStep]}
        \X ExhaustOptions

NextExhaust ==
    \/ \E in \in ExhaustInputs : UniqueFactory(in[1], in[2])
    \/ CallWithin(MaxExhaustCalls)
    \/ ThrowMaxTime
    \/ ThrowMaxTries
    \/ PassChecks
    \/ Invoke
    \/ Accept
    \/ Reject
    \/ Finish

SpecExhaust == Init /\ [][NextExhaust]_vars

\* The normalized forms the operation of g can produce, and those of them
\* that are excluded.
Producible(g) == {NormalForm(g, v) : v \in g.fn.vals}
ProducibleExcluded(g) == Producible(g) \cap NormalizedExclude(g)

\* C20 (exhausted value space): a generator on a store of its own, empty at
\* first, whose operation produces K values with K distinct normalized
\* forms, e of them excluded, has succeeded at most K - e times; and a call
\* begun when every producible normalized form is in the store or excluded
\* returns no value and ends with the time-budget or the retry-budget
\* error.
C20_ExhaustedValues ==
    (gen # <<>> /\ G.store = NewSet
       /\ Cardinality(Producible(G)) = Cardinality(G.fn.vals))
    => /\ BagCardinality(returned[NewSet])
             <= Cardinality(Producible(G)) - Cardinality(ProducibleExcluded(G))
       /\ (InCall /\ Producible(G) \subseteq
                         before[NewSet] \cup NormalizedExclude(G))
             => /\ ~Succeeded
                /\ stores = before
                /\ pc = "done"
                      => /\ outcome.kind = "thrown"
                         /\ outcome.error.code
                               \in {MaxTimeCode(G), MaxTriesCode(G)}

\* K = 3, e = 0: three calls have succeeded and the fourth has failed.
C20_Witness ==
    /\ Failed
    /\ calls = 4
    /\ G.store = NewSet
    /\ G.fn.vals = Values
    /\ ProducibleExcluded(G) = {}
    /\ BagCardinality(returned[NewSet]) = 3
    /\ before[NewSet] = Producible(G)

\* ------------------------------------------------------------------ the default ceilings

\* Options that leave maxRetries and maxTime out, on the caller's store or
\* with an exclude list; the constant operation that takes no time, MaxStep
\* ms or 10 ms.
DefaultsOptions == {[store |-> CallerStore], [exclude |-> <<Num1>>]}
DefaultsFns == {[vals |-> {Num1}, step |-> d] : d \in {0, MaxStep, 10}}
DefaultsInputs == DefaultsFns \X DefaultsOptions

NextDefaults ==
    \/ \E in \in DefaultsInputs : UniqueFactory(in[1], in[2])
    \/ Call
    \/ \E in \in DefaultsInputs : Unique(in[1], in[2])
    \/ ThrowMaxTime
    \/ ThrowMaxTries
    \/ PassChecks
    \/ Invoke
    \/ Accept
    \/ Reject
    \/ Finish

SpecDefaults == Init /\ [][NextDefaults]_vars

\* C21 (defaults): a generator built without maxRetries and maxTime has both
\* ceilings at 50.  Its call that failed while the clock stood still failed
\* with the retry-budget error after exactly 50 invocations; its call that
\* failed with the clock 50 ms or more past the start failed with the
\* time-budget error, after fewer than 50 invocations when one invocation
\* takes 2 ms or more.
C21_Defaults ==
    (InCall /\ "maxRetries" \notin DOMAIN G.options
            /\ "maxTime" \notin DOMAIN G.options)
    => /\ G.maxRetries = 50
       /\ G.maxTime = 50
       /\ invocations <= 50
       /\ (Failed /\ clock = startTime)
             => /\ outcome.error.code = "Exceeded maxTries: 50"
                /\ invocations = 50
                /\ outcome.error.currentIterations = 50
                /\ outcome.error.duration = 0
       /\ (Failed /\ clock - startTime >= 50)
             => /\ outcome.error.code = "Exceeded maxTime: 50"
                /\ invocations = CeilDiv(50, G.fn.step)
                /\ outcome.error.currentIterations = invocations
                /\ G.fn.step >= 2 => invocations < 50
       /\ Failed => clock = startTime \/ clock - startTime >= 50

\* The clock stood still and every candidate was rejected: the call has
\* failed after 50 invocations.
C21_Witness ==
    /\ Failed
    /\ "maxRetries" \notin DOMAIN G.options
    /\ "maxTime" \notin DOMAIN G.options
    /\ G.fn.step = 0
    /\ invocations = 50
    /\ rejects.stored + rejects.excluded >= 50
    /\ outcome.error.code = "Exceeded maxTries: 50"

\* ------------------------------------------------------------------ termination

\* Both budgets varied for the constant operation that takes 0..MaxStep ms,
\* and the operation with the three values under the default maxTime, where
\* the clock stands still and only maxRetries can end the loop.
TerminationInputs ==
    (TimedFns \X BudgetOptions)
        \cup {<<[vals |-> Values, step |-> 0],
                [exclude |-> <<Num1>>, maxRetries |-> MaxRetriesOpt]>>}

\* One step of the body of the returned function.
LoopStep ==
    \/ ThrowMaxTime
    \/ ThrowMaxTries
    \/ PassChecks
    \/ Invoke
    \/ Accept
    \/ Reject

NextTermination ==
    \/ \E in \in TerminationInputs : UniqueFactory(in[1], in[2])
    \/ Call
    \/ \E in \in TerminationInputs : Unique(in[1], in[2])
    \/ ThrowMaxTime
    \/ ThrowMaxTries
    \/ PassChecks
    \/ Invoke
    \/ Accept
    \/ Reject
    \/ Finish

\* A call that has begun keeps running: each statement of the loop is
\* executed in its turn, and each invocation of fn comes back.
SpecTermination ==
    Init /\ [][NextTermination]_vars /\ WF_vars(LoopStep)

\* C22 (termination): every call that has begun ends; it ends with a value
\* or with the time-budget or the retry-budget error; at no time has it made
\* more than maxRetries invocations of the operation, and a call that
\* returned a value has made at least one.
C22_Termination ==
    /\ [](InCall => invocations <= G.maxRetries)
    /\ [](Succeeded => invocations >= 1)
    /\ [](pc = "done" =>
            \/ outcome.kind = "returned"
            \/ /\ outcome.kind = "thrown"
               /\ outcome.error.code \in {MaxTimeCode(G), MaxTriesCode(G)})
    /\ (pc \in {"check", "invoke", "test"}) ~> (pc = "done")

\* Under the default maxTime and a clock that stands still, a call has
\* returned a value from its last permitted invocation, the earlier
\* candidate having been rejected.
C22_Witness ==
    /\ Succeeded
    /\ "maxTime" \notin DOMAIN G.options
    /\ clock = startTime
    /\ invocations = G.maxRetries
    /\ invocations >= 2
    /\ rejects.excluded >= 1

\* ------------------------------------------------------------------ call order

\* C23 (first accepted in call order): the candidates of a call are the
\* results of its invocations, in order.  Every candidate before the last was
\* not acceptable (its normalized form was in the store or in the normalized
\* exclude list); the operation is about to be invoked again only when no
\* candidate so far was acceptable; a call that returned a value returned
\* its last candidate, which was acceptable, and a call that produced an
\* acceptable candidate returned it.
C23_FirstAccepted ==
    InCall =>
        LET n == Len(candidates)
            ok(i) == Acceptable(before[G.store], G.exclude,
                                NormalForm(G, candidates[i]))
        IN /\ n = invocations
           /\ \A i \in 1..(n - 1) : ~ok(i)
           /\ pc \in {"check", "invoke"} => \A i \in 1..n : ~ok(i)
           /\ Succeeded => /\ n >= 1
                           /\ outcome.value = candidates[n]
                           /\ ok(n)
           /\ Failed => \A i \in 1..n : ~ok(i)
           /\ (pc = "done" /\ n >= 1 /\ ok(n)) => Succeeded

\* The first candidate of a call was in the store, the second, another
\* value, was acceptable and has been returned.
C23_Witness ==
    /\ Succeeded
    /\ Len(candidates) = 2
    /\ candidates[1] # candidates[2]
    /\ NormalForm(G, candidates[1]) \in before[G.store]
    /\ NormalForm(G, candidates[2]) \notin before[G.store]
    /\ outcome.value = candidates[2]

\* ------------------------------------------------------------------ time is checked between invocations

\* C24 (the time budget is evaluated between invocations only): a candidate
\* is tested only after a budget check at which the elapsed time was below
\* maxTime and the attempts below maxRetries; a call whose last candidate
\* was acceptable has returned that candidate and its normalized form is in
\* the store, however long the invocation took, also when the clock stands
\* at maxTime or more past the start of the call.
C24_TimeBetweenInvocations ==
    /\ pc = "test" =>
          /\ duration < G.maxTime
          /\ currentIterations - 1 < G.maxRetries
          /\ clock - startTime = duration + G.fn.step
    /\ (pc = "done" /\ invocations >= 1
          /\ Acceptable(before[G.store], G.exclude, tmpResult))
       => /\ Succeeded
          /\ outcome.value = result
          /\ tmpResult \in stores[G.store]
          /\ stores[G.store] = before[G.store] \cup {tmpResult}

\* A call has returned a value although its one invocation ended with the
\* clock at maxTime past the start.
C24_Witness ==
    /\ Succeeded
    /\ G.fn.step >= 1
    /\ duration < G.maxTime
    /\ clock - startTime >= G.maxTime
    /\ tmpResult \in stores[G.store] \ before[G.store]

\* ------------------------------------------------------------------ excluded candidates and the retry budget

\* The operation of the test, mockReturnValue('excluded'), one that takes
\* MaxStep ms, and one that may also produce 1; the exclude list
\* ['excluded'] with maxRetries from 0 to MaxRetriesOpt and the test's 3,
\* with and without maxTime, on a Set of the generator's own or on the
\* caller's, under either stringifier.
StrExcluded == JSString("excluded")
ExcludedFns ==
    {[vals |-> V, step |-> 0] : V \in {{StrExcluded}, {StrExcluded, Num1}}}
        \cup {[vals |-> {StrExcluded}, step |-> MaxStep]}
ExcludedOptions ==
    {a @@ e @@ t @@ [exclude |-> <<StrExcluded>>, maxRetries |-> n] :
        a \in StoreOpts, e \in StringifierOpts,
        t \in {<<>>, [maxTime |-> MaxTimeOpt]},
        n \in (0..MaxRetriesOpt) \cup {3}}
ExcludedInputs == ExcludedFns \X ExcludedOptions

NextExcluded ==
    \/ \E in \in ExcludedInputs : UniqueFactory(in[1], in[2])
    \/ Call
    \/ \E in \in ExcludedInputs : Unique(in[1], in[2])
    \/ ThrowMaxTime
    \/ ThrowMaxTries
    \/ PassChecks
    \/ Invoke
    \/ Accept
    \/ Reject
    \/ Finish

SpecExcluded == Init /\ [][NextExcluded]_vars

\* C25 (excluded candidates consume the retry budget): a call of a generator
\* with maxRetries = N whose operation produces excluded values only, ended
\* with the elapsed time below maxTime, has failed with the retry-budget
\* error after exactly N invocations, each of them rejected as excluded; the
\* stores are as before the call, and a store that was empty before the
\* call is empty and reported with size 0.
C25_ExcludedConsumeBudget ==
    (/\ pc = "done"
     /\ Producible(G) \subseteq NormalizedExclude(G)
     /\ clock - startTime < G.maxTime)
    => /\ outcome.kind = "thrown"
       /\ outcome.error.code = MaxTriesCode(G)
       /\ invocations = G.maxRetries
       /\ outcome.error.currentIterations = G.maxRetries
       /\ rejects.excluded = G.maxRetries
       /\ stores = before
       /\ outcome.error.storeSize = Cardinality(before[G.store])
       /\ before[G.store] = {} =>
             /\ stores[G.store] = {}
             /\ outcome.error.storeSize = 0
             /\ rejects.stored = 0

\* The repository's test: maxRetries 3 and exclude ['excluded'] on a new
\* Set; the call has failed after 3 invocations with store size 0.
C25_Witness ==
    /\ Failed
    /\ G.fn.vals = {StrExcluded}
    /\ G.options = [maxRetries |-> 3, exclude |-> <<StrExcluded>>]
    /\ G.store = NewSet
    /\ invocations = 3
    /\ rejects = [stored |-> 0, excluded |-> 3]
    /\ stores[NewSet] = {}
    /\ outcome.error.code = "Exceeded maxTries: 3"
    /\ outcome.error.storeSize = 0
    /\ outcome.error.currentIterations = 3
    /\ outcome.error.duration = 0

\* ------------------------------------------------------------------ what a store holds

\* The number of calls in one behaviour of SpecStore.
MaxStoreCalls == 3

\* Generators and unique calls that share the caller's Set or GLOBAL_STORE,
\* or have a Set of their own, with and without an exclude list, under
\* either stringifier and the largest budgets, for the operation with the
\* three values; and the constant operation that takes MaxStep ms, on the
\* caller's Set.
StoreOptions ==
    {a @@ d @@ e @@ [maxRetries |-> MaxRetriesOpt, maxTime |-> MaxTimeOpt] :
        a \in StoreOpts,
        d \in {<<>>, [exclude |-> <<Num1>>]},
        e \in StringifierOpts}
StoreInputs ==
    ({[vals |-> Values, step |-> 0]} \X StoreOptions)
        \cup {<<[vals |-> {Num1}, step |-> MaxStep],
                [store |-> CallerStore, maxRetries |-> MaxRetriesOpt,
                 maxTime |-> MaxTimeOpt]>>}

NextStore ==
    \/ \E in \in StoreInputs : UniqueFactory(in[1], in[2])
    \/ CallWithin(MaxStoreCalls)
    \/ \E in \in StoreInputs : UniqueWithin(in[1], in[2], MaxStoreCalls)
    \/ ThrowMaxTime
    \/ ThrowMaxTries
    \/ PassChecks
    \/ Invoke
    \/ Accept
    \/ Reject
    \/ Finish

SpecStore == Init /\ [][NextStore]_vars

\* The stores that are empty at first: all but the caller's first Set,
\* which may be seeded.
StartEmpty == StoreIds \ {CallerStore}

\* What a store holds, at any time.
StoreHolds ==
    /\ \A s \in StartEmpty : stores[s] = BagToSet(returned[s])
    /\ \E seed \in PreSeeds :
          /\ stores[CallerStore] = seed \cup BagToSet(returned[CallerStore])
          /\ seed \cap BagToSet(returned[CallerStore]) = {}
    /\ InCall =>
          /\ before[G.store] \subseteq stores[G.store]
          /\ (stores[G.store] \ before[G.store]) \cap NormalizedExclude(G) = {}
          /\ \A i \in 1..Len(candidates) :
                (i < Len(candidates) \/ ~Succeeded)
                => NormalForm(G, candidates[i])
                      \notin stores[G.store] \ before[G.store]

\* What a step does to a store: it keeps every element; a generator built
\* without options.store begins with a new Set.
StoreGrows ==
    \A s \in StoreIds :
        \/ stores[s] \subseteq stores'[s]
        \/ /\ s = NewSet
           /\ pc = "idle" /\ pc' = "idle"
           /\ passed'[1] = "uniqueFactory"
           /\ "store" \notin DOMAIN passed'[2]
           /\ stores'[s] = {}

\* C26 (store invariant): a store that was empty at first holds exactly the
\* normalized forms of the values that successful calls on it have returned,
\* whichever generators made the calls, and a seeded store holds its seed
\* besides; no call has put into its store the normalized form of an
\* excluded element or of a candidate it rejected; and no step takes an
\* element out of a store.
C26_StoreInvariant == []StoreHolds /\ [][StoreGrows]_vars

\* After three calls through generators that differ in their exclude lists,
\* one of them failed, a store that was empty at first holds the two
\* normalized forms returned and not the form rejected as excluded.
C26_Witness ==
    /\ Failed
    /\ calls = 3
    /\ G.store \in StartEmpty
    /\ Cardinality(stores[G.store]) = 2
    /\ stores[G.store] = BagToSet(returned[G.store])
    /\ rejects.excluded >= 1
    /\ tmpResult \notin stores[G.store]

\* ------------------------------------------------------------------ the caller's exclude array

\* C27 (exclude is not modified): from the construction of a generator on,
\* through all of its calls, the array the caller passed as exclude has the
\* length and the raw elements, in their order, that the caller gave it;
\* the list the generator tests candidates against is another array, which
\* holds the normalized elements.
C27_ExcludeUntouched ==
    (gen # <<>> /\ passed[1] = "uniqueFactory")
    => /\ callerExclude = Option(passed[2], "exclude", <<>>)
       /\ Len(callerExclude) = Len(G.exclude)
       /\ \A i \in 1..Len(callerExclude) :
             /\ callerExclude[i] = RawExclude(G)[i]
             /\ G.exclude[i] = NormalForm(G, callerExclude[i])

\* After four calls of a generator under JSON.stringify, some of which
\* rejected a candidate as excluded, the caller's array holds the object
\* the caller put there while the generator's list holds its string.
C27_Witness ==
    /\ pc = "done"
    /\ calls = 4
    /\ passed[1] = "uniqueFactory"
    /\ rejects.excluded >= 1
    /\ callerExclude = <<ObjA2>>
    /\ G.exclude = <<JSString("{\"key\":\"a\"}")>>

\* ------------------------------------------------------------------ the caller changes its exclude array

\* The longest the caller makes its exclude array.
MaxExcludeLen == 2

\* Mutant: the generator's list is the caller's array.
ExcludePush_Aliased(v) ==
    /\ pc = "idle"
    /\ gen # <<>>
    /\ "exclude" \in DOMAIN gen[1].options
    /\ Len(callerExclude) < MaxExcludeLen
    /\ callerExclude' = Append(callerExclude, v)
    /\ UNCHANGED callerOptions
    /\ gen' = [gen EXCEPT ![1].exclude = Append(@, v)]
    /\ UNCHANGED <<stores, clock, pc, locals, outcome, invocations, before,
                   rejects, passed, returned, calls, args, received,
                   candidates>>

\* exclude.push(v), done by the caller after it built the generator: the
\* generator's list is the array exclude.map made, so the generator is as
\* it was.
ExcludePush(v) ==
    /\ pc = "idle"
    /\ gen # <<>>
    /\ "exclude" \in DOMAIN gen[1].options
    /\ Len(callerExclude) < MaxExcludeLen
    /\ callerExclude' = Append(callerExclude, v)
    /\ UNCHANGED callerOptions
    /\ UNCHANGED <<stores, gen, clock, pc, locals, outcome, invocations,
                   before, rejects, passed, returned, calls, args, received,
                   candidates>>

\* exclude.pop(), done by the caller after it built the generator.
ExcludePop ==
    /\ pc = "idle"
    /\ gen # <<>>
    /\ callerExclude # <<>>
    /\ callerExclude' = SubSeq(callerExclude, 1, Len(callerExclude) - 1)
    /\ UNCHANGED callerOptions
    /\ UNCHANGED <<stores, gen, clock, pc, locals, outcome, invocations,
                   before, rejects, passed, returned, calls, args, received,
                   candidates>>

\* Generators with the exclude list [1], under either stringifier and the
\* largest budgets, for the operation with the three values and for the
\* constant operation that takes MaxStep ms.
ExcludeEditOptions ==
    {a @@ e @@ [exclude |-> <<Num1>>,
                maxRetries |-> MaxRetriesOpt, maxTime |-> MaxTimeOpt] :
        a \in StoreOpts, e \in StringifierOpts}
ExcludeEditInputs ==
    {[vals |-> Values, step |-> 0], [vals |-> {Num1}, step |-> MaxStep]}
        \X ExcludeEditOptions

NextExcludeEdit ==
    \/ \E in \in ExcludeEditInputs : UniqueFactory(in[1], in[2])
    \/ Call
    \/ \E v \in Values : ExcludePush(v)
    \/ ExcludePop
    \/ ThrowMaxTime
    \/ ThrowMaxTries
    \/ PassChecks
    \/ Invoke
    \/ Accept
    \/ Reject
    \/ Finish

SpecExcludeEdit == Init /\ [][NextExcludeEdit]_vars

\* C28 (the exclusion list is fixed at construction): the list a generator
\* tests candidates against is the normalized list of the elements the
\* exclude array had when uniqueFactory was called, whatever the caller has
\* added to or removed from its array since; in every call a candidate is
\* rejected exactly when its normalized form is in the store or in that
\* list.
C28_ExcludeFixed ==
    InCall =>
        /\ G.exclude = MapStringifier(RawExclude(G), G.stringifier)
        /\ \A i \in 1..Len(candidates) :
              (i < Len(candidates) \/ pc # "test")
              => ((i < Len(candidates) \/ ~Succeeded)
                  <=> \/ NormalForm(G, candidates[i]) \in before[G.store]
                      \/ NormalForm(G, candidates[i]) \in NormalizedExclude(G))

\* The caller has taken 1 out of its array and put '1' in, and the
\* generator has then rejected 1 as excluded and returned '1'.
C28_Witness ==
    /\ Succeeded
    /\ RawExclude(G) = <<Num1>>
    /\ callerExclude = <<Str1>>
    /\ candidates = <<Num1, Str1>>
    /\ rejects = [stored |-> 0, excluded |-> 1]
    /\ outcome.value = Str1

\* ------------------------------------------------------------------ fresh objects

\* The number of calls in one behaviour of SpecFresh.
MaxFreshCalls == 10

\* objectGen of the test: each invocation returns a new object of one of
\* the shapes {key: 'a'}, {key: 'b'}, {key: 'c'}.
Shapes == {"a", "b", "c"}
ObjectGen == [vals |-> {}, step |-> 0, shapes |-> Shapes]
\* objectGen when one invocation takes MaxStep ms.
SlowObjectGen == [vals |-> {}, step |-> MaxStep, shapes |-> Shapes]

\* The identity of the object the invocation at hand creates: one that no
\* object made before has.
FreshId == 100 * calls + invocations + 1

\* result = fn.apply(null, args) where fn returns a new object;
\* tmpResult = stringifier(result); currentIterations++
InvokeFresh ==
    /\ pc = "invoke"
    /\ "shapes" \in DOMAIN gen[1].fn
    /\ LET g == gen[1]
       IN \E k \in g.fn.shapes :
            LET v == [kind |-> "object", id |-> FreshId, val |-> k]
            IN /\ result' = v
               /\ tmpResult' = Apply(g.stringifier, v)
               /\ candidates' = Append(candidates, v)
               /\ clock' = clock + g.fn.step
    /\ received' = Append(received, Arguments(args))
    /\ currentIterations' = currentIterations + 1
    /\ invocations' = invocations + 1
    /\ pc' = "test"
    /\ UNCHANGED <<stores, gen, startTime, duration, outcome, before,
                   rejects, passed, returned, calls, args, callerExclude, callerOptions>>

\* The two generators of the test: on a Set of the caller's with the
\* identity function as stringifier, and on another Set with the default
\* stringifier.
FreshOptions ==
    {[store |-> OtherStore, stringifier |-> "identity",
      maxRetries |-> MaxRetriesOpt],
     [store |-> CallerStore, maxRetries |-> MaxRetriesOpt]}
\* The slow objectGen is used under the default stringifier and maxTime
\* MaxTimeOpt.
FreshInputs ==
    ({ObjectGen} \X FreshOptions)
        \cup {<<SlowObjectGen,
                [store |-> CallerStore, maxRetries |-> MaxRetriesOpt,
                 maxTime |-> MaxTimeOpt]>>}

\* A behaviour of SpecFresh has one generator, built before the first call.
UniqueFactoryFirst(fn, options) == calls = 0 /\ UniqueFactory(fn, options)

NextFresh ==
    \/ \E in \in FreshInputs : UniqueFactoryFirst(in[1], in[2])
    \/ CallWithin(MaxFreshCalls)
    \/ ThrowMaxTime
    \/ ThrowMaxTries
    \/ PassChecks
    \/ InvokeFresh
    \/ Accept
    \/ Reject
    \/ Finish

SpecFresh == Init /\ [][NextFresh]_vars

\* The structures of the objects in a set.
Structures(set) == {v.val : v \in {o \in set : o.kind = "object"}}

\* C29 (the normalizer governs equality): under the default stringifier a
\* candidate is rejected exactly when an object of its structure was
\* returned on the store before, though every candidate is a new object, so
\* the store never holds more than one form per shape; under the identity
\* stringifier the candidates are compared as they are, so every call
\* returns its first candidate and stores the object itself, whatever
\* objects of the same structure the store holds.
C29_NormalizerGovernsEquality ==
    (InCall /\ "shapes" \in DOMAIN G.fn)
    => /\ \A o \in before[G.store] : \A i \in 1..Len(candidates) :
             o.kind = "object" => o.id # candidates[i].id
       /\ G.stringifier = "JSON.stringify" =>
             /\ \A i \in 1..Len(candidates) :
                   (i < Len(candidates) \/ pc # "test")
                   => ((i < Len(candidates) \/ ~Succeeded)
                       <=> JSONstringify(candidates[i]) \in before[G.store])
             /\ Cardinality(BagToSet(returned[G.store])) <= Cardinality(Shapes)
             /\ BagToSet(returned[G.store]) \subseteq
                   {JSONstringify([kind |-> "object", id |-> 0, val |-> k]) :
                       k \in Shapes}
       /\ G.stringifier = "identity" =>
             /\ invocations <= 1
             /\ rejects = NoRejects
             /\ pc = "done" =>
                   /\ Succeeded
                   /\ outcome.value = candidates[1]
                   /\ stores[G.store] = before[G.store] \cup {candidates[1]}
                   /\ candidates[1] \notin before[G.store]
             /\ Cardinality(stores[G.store]) = BagCardinality(returned[G.store])

\* The test: ten calls under the identity stringifier have succeeded and
\* the store holds ten objects, of three structures at most.
C29_Witness ==
    /\ Succeeded
    /\ "shapes" \in DOMAIN G.fn
    /\ G.stringifier = "identity"
    /\ calls = 10
    /\ Cardinality(stores[G.store]) = 10
    /\ Cardinality(Structures(stores[G.store])) <= 3
    /\ \E o \in before[G.store] : o.val = outcome.value.val /\ o # outcome.value

\* ------------------------------------------------------------------ the invocation guard

\* The attempt counter of a call and its invocations of the operation: the
\* counter is the number of invocations that came back, which is all of
\* them unless the operation has just thrown and ended the call.
GuardHolds ==
    InCall =>
        /\ invocations <= G.maxRetries
        /\ currentIterations <= G.maxRetries
        /\ Len(received) = invocations
        /\ IF pc = "done" /\ outcome.error = OperationError
             THEN currentIterations = invocations - 1
             ELSE currentIterations = invocations
        /\ pc = "invoke" =>
              /\ duration = Elapsed(clock, startTime)
              /\ duration < G.maxTime
              /\ currentIterations < G.maxRetries

\* A step that invokes the operation is made from the place after a budget
\* check that found the elapsed time below maxTime and the attempts below
\* maxRetries, with the clock as it was at that check; and the loop gets to
\* that place by such a check only.
GuardedStep ==
    /\ invocations' = invocations + 1 =>
          /\ pc = "invoke"
          /\ Elapsed(clock, startTime) < G.maxTime
          /\ currentIterations < G.maxRetries
    /\ pc' = "invoke" =>
          /\ pc = "check"
          /\ clock' = clock
          /\ ~TimeExceeded(Elapsed(clock, startTime), G.maxTime)
          /\ ~RetriesExceeded(currentIterations, G.maxRetries)
          /\ invocations' = invocations

\* C30 (invocation guard): the operation is invoked only right after a
\* budget check at which the elapsed time was below maxTime and the attempts
\* below maxRetries; at every point of a call the invocations made are at
\* most maxRetries, and the attempt counter is the number of invocations
\* made so far in the call.
C30_InvocationGuard == []GuardHolds /\ [][GuardedStep]_vars

\* The last permitted invocation has been made and its candidate rejected:
\* the counter and the invocations stand at maxRetries, with the elapsed
\* time still below maxTime.
C30_Witness ==
    /\ pc = "check"
    /\ G.maxRetries >= 2
    /\ invocations = G.maxRetries
    /\ currentIterations = G.maxRetries
    /\ Elapsed(clock, startTime) < G.maxTime

\* ------------------------------------------------------------------ an operation that calls the library

\* An operation that, while it is invoked, calls a generator on the store s
\* (or unique with that store) for an operation with the three values, and
\* then returns what that call returned (echo) or any of the three values;
\* it takes d ms of its own.
NestedFn(echo, d, s, e) ==
    [vals |-> Values, step |-> d, echo |-> echo,
     inner |-> [fn |-> [vals |-> Values, step |-> 0],
                options |-> e @@ [store |-> s,
                                  maxRetries |-> MaxRetriesOpt,
                                  maxTime |-> MaxTimeOpt]]]

\* The generator the operation fn calls.
InnerOf(fn) == uniqueFactory(fn.inner.fn, fn.inner.options)

\* result = fn.apply(null, args) where fn makes a call of its own that
\* returns a value: that call runs from its beginning to its end, with its
\* insertion into its store, before fn comes back; then
\* tmpResult = stringifier(result); currentIterations++
InvokeNested ==
    /\ pc = "invoke"
    /\ "inner" \in DOMAIN gen[1].fn
    /\ LET g == gen[1]
           h == InnerOf(g.fn)
       IN \E e \in Loop(h, <<>>, stores[h.store], 0, 0) :
            /\ e.outcome.kind = "returned"
            /\ \E v \in (IF g.fn.echo THEN {e.outcome.value} ELSE g.fn.vals) :
                  /\ result' = v
                  /\ tmpResult' = Apply(g.stringifier, v)
                  /\ candidates' = Append(candidates, v)
            /\ stores' = [stores EXCEPT ![h.store] = e.store]
            /\ returned' = [returned EXCEPT
                   ![h.store] =
                       @ (+) SetToBag({Apply(h.stringifier, e.outcome.value)})]
            /\ clock' = clock + e.invocations * h.fn.step + g.fn.step
    /\ received' = Append(received, Arguments(args))
    /\ currentIterations' = currentIterations + 1
    /\ invocations' = invocations + 1
    /\ pc' = "test"
    /\ UNCHANGED <<gen, startTime, duration, outcome, before, rejects,
                   passed, calls, args, callerExclude, callerOptions>>

\* result = fn.apply(null, args) where the call fn makes fails: fn does not
\* catch the error, so it ends the outer call as well.
InvokeNestedThrows ==
    /\ pc = "invoke"
    /\ "inner" \in DOMAIN gen[1].fn
    /\ LET g == gen[1]
           h == InnerOf(g.fn)
       IN \E e \in Loop(h, <<>>, stores[h.store], 0, 0) :
            /\ e.outcome.kind = "thrown"
            /\ outcome' = e.outcome
            /\ clock' = clock + e.outcome.error.duration
    /\ received' = Append(received, Arguments(args))
    /\ invocations' = invocations + 1
    /\ pc' = "done"
    /\ UNCHANGED <<stores, gen, currentIterations, startTime, duration,
                   result, tmpResult, before, rejects, passed, returned,
                   calls, args, candidates, callerExclude, callerOptions>>

\* The outer generator and the call the operation makes share the caller's
\* second Set, under the same stringifier; unique is called without a store
\* for an operation that calls unique without a store.
NestedInputs ==
    {<<NestedFn(echo, d, OtherStore, e),
       e @@ [store |-> OtherStore, maxRetries |-> MaxRetriesOpt,
             maxTime |-> MaxTimeOpt]>> :
        echo \in BOOLEAN, d \in {0, MaxStep}, e \in StringifierOpts}
NestedUniqueInputs ==
    {<<NestedFn(echo, 0, GLOBAL_STORE, <<>>),
       [maxRetries |-> MaxRetriesOpt, maxTime |-> MaxTimeOpt]>> :
        echo \in BOOLEAN}

NextNested ==
    \/ \E in \in NestedInputs : UniqueFactory(in[1], in[2])
    \/ Call
    \/ \E in \in NestedUniqueInputs : Unique(in[1], in[2])
    \/ ThrowMaxTime
    \/ ThrowMaxTries
    \/ PassChecks
    \/ InvokeNested
    \/ InvokeNestedThrows
    \/ Accept
    \/ Reject
    \/ Finish

SpecNested == Init /\ [][NextNested]_vars

\* The calls the operation has made in the running call that returned a
\* value: one per invocation, but for an invocation that ended the call
\* with the error of the call it made.
InnerSuccesses ==
    IF pc = "done" /\ outcome.kind = "thrown"
         /\ currentIterations < invocations
      THEN invocations - 1
      ELSE invocations

\* C31 (re-entrancy): when the operation, while it is invoked, makes calls
\* that share the store of the outer call, every normalized form has been
\* returned on the store by one call at most, inner or outer; the store has
\* grown in the outer call by one element for each inner call that returned
\* a value and by one more when the outer call has returned one; the
\* candidate of the outer call is tested against the store that holds what
\* the inner calls inserted, so a candidate with the form an inner call
\* just returned is rejected.
C31_Reentrancy ==
    /\ \A s \in StoreIds : \A n \in BagToSet(returned[s]) :
          /\ CopiesIn(n, returned[s]) = 1
          /\ n \in stores[s]
    /\ Cardinality(stores[OtherStore]) = BagCardinality(returned[OtherStore])
    /\ Cardinality(stores[GLOBAL_STORE])
          = BagCardinality(returned[GLOBAL_STORE])
    /\ InCall =>
          /\ before[G.store] \subseteq stores[G.store]
          /\ Cardinality(stores[G.store] \ before[G.store])
                = InnerSuccesses + (IF Succeeded THEN 1 ELSE 0)
          /\ \A s \in StoreIds \ {G.store} : stores[s] = before[s]
          /\ Succeeded => NormalForm(G, outcome.value) \notin before[G.store]
          /\ (G.fn.echo /\ pc = "done") => ~Succeeded

\* On a store that was empty, the outer call rejected a first candidate
\* that had the form the inner call had just inserted, and returned its
\* second candidate: two inner calls and the outer call have inserted three
\* elements.
C31_Witness ==
    /\ Succeeded
    /\ before[G.store] = {}
    /\ invocations = 2
    /\ rejects.stored = 1
    /\ Cardinality(stores[G.store]) = 3
    /\ BagCardinality(returned[G.store]) = 3

\* ------------------------------------------- the caller's options object

MaxReuseCalls == 3

\* The options object as the caller wrote it before it was first passed to
\* the library.
AsWritten ==
    IF passed[1] = "uniqueFactory" /\ Len(passed) = 3
      THEN passed[3]
      ELSE passed[2]

\* uniqueFactory(fn, options) with the options object that was passed to
\* unique before: the generator is built from what that object holds now.
\* uniqueFactory reads the object and does not write into it.
UniqueFactoryReusing(fn) ==
    /\ pc = "idle"
    /\ calls < MaxReuseCalls
    /\ passed # <<>>
    /\ passed[1] = "unique" \/ Len(passed) = 3
    /\ gen' = <<uniqueFactory(fn, callerOptions)>>
    /\ IF "store" \in DOMAIN callerOptions
         THEN UNCHANGED <<stores, returned>>
         ELSE /\ stores' = [stores EXCEPT ![NewSet] = {}]
              /\ returned' = [returned EXCEPT ![NewSet] = EmptyBag]
    /\ passed' = <<"uniqueFactory", callerOptions, AsWritten>>
    /\ callerExclude' =
          AfterMap(Option(callerOptions, "exclude", <<>>),
                   StringifierOf(callerOptions))
    /\ UNCHANGED <<clock, pc, locals, outcome, invocations, before, rejects,
                   calls,
                   args, received, candidates, callerOptions>>

\* Options objects with and without a store and with other fields, for the
\* operation with two values and the constant operation that takes MaxStep
\* ms.
ReuseOptions ==
    {s @@ e @@ [maxRetries |-> MaxRetriesOpt, maxTime |-> MaxTimeOpt] :
        s \in {<<>>, [store |-> CallerStore]},
        e \in {<<>>, [exclude |-> <<Str1>>], [stringifier |-> "identity"]}}
ReuseFns == {[vals |-> {Num1, Str1}, step |-> 0],
             [vals |-> {Num1}, step |-> MaxStep]}
ReuseInputs == ReuseFns \X ReuseOptions

NextReuse ==
    \/ \E in \in ReuseInputs : UniqueWithin(in[1], in[2], MaxReuseCalls)
    \/ \E fn \in ReuseFns : UniqueFactoryReusing(fn)
    \/ CallWithin(MaxReuseCalls)
    \/ ThrowMaxTime
    \/ ThrowMaxTries
    \/ PassChecks
    \/ Invoke
    \/ Accept
    \/ Reject
    \/ Finish

SpecReuse == Init /\ [][NextReuse]_vars

\* C32: from the moment unique(fn, args, options) is called, and so after
\* the call whether it returned or threw, the caller's options object has a
\* store field holding the store the call used, which is the store the
\* caller wrote or GLOBAL_STORE when it wrote none, and every other field as
\* the caller wrote it; a generator built afterwards with uniqueFactory from
\* that object uses that store, never a Set of its own.
C32_OptionsWritten ==
    /\ (passed # <<>> /\ passed[1] = "unique") =>
          /\ DOMAIN callerOptions = DOMAIN passed[2] \cup {"store"}
          /\ callerOptions.store = G.store
          /\ callerOptions.store =
                IF "store" \in DOMAIN passed[2]
                  THEN passed[2].store
                  ELSE GLOBAL_STORE
          /\ \A k \in DOMAIN passed[2] \ {"store"} :
                callerOptions[k] = passed[2][k]
    /\ (passed # <<>> /\ passed[1] = "uniqueFactory" /\ Len(passed) = 3) =>
          /\ G.store # NewSet
          /\ G.store =
                IF "store" \in DOMAIN passed[3]
                  THEN passed[3].store
                  ELSE GLOBAL_STORE
          /\ G.options = callerOptions

\* A generator built from an options object written without a store and
\* passed to unique before: its call found the value of the unique call in
\* GLOBAL_STORE and failed.
C32_Witness ==
    /\ passed # <<>>
    /\ passed[1] = "uniqueFactory"
    /\ Len(passed) = 3
    /\ "store" \notin DOMAIN passed[3]
    /\ G.store = GLOBAL_STORE
    /\ Failed
    /\ rejects.stored > 0
    /\ calls = 2

\* ------------------------------------------- raw values in a store

\* The candidates of the call that were found in the store the call began
\* with, by their normalized form and as they are.
FormInStore(i) == Has(before[G.store], NormalForm(G, candidates[i]))
RawInStore(i) == Has(before[G.store], candidates[i])

\* C33 (membership is tested on normalized forms only): a call that has
\* ended turned away every candidate whose normalized form was in the store
\* and returned the candidate whose normalized form was neither in the store
\* nor excluded, whether or not the store held the candidate itself: a store
\* that holds the number 1 and not the string '1' does not keep a generator
\* with JSON.stringify from returning 1, and one that holds '1' does.
C33_NormalizedMembership ==
    pc = "done" =>
        LET n == Len(candidates)
        IN /\ \A i \in 1..n :
                 FormInStore(i) => ~(Succeeded /\ i = n)
           /\ \A i \in 1..n :
                 (/\ RawInStore(i)
                  /\ ~FormInStore(i)
                  /\ NormalForm(G, candidates[i]) \notin NormalizedExclude(G))
                 => /\ i = n
                    /\ Succeeded
                    /\ outcome.value = candidates[i]
                    /\ stores[G.store] =
                          before[G.store]
                             \cup {NormalForm(G, candidates[i])}
           /\ (G.stringifier = "JSON.stringify" /\ G.fn.vals = {Num1}
                  /\ G.exclude = <<>>)
                 => (Succeeded <=> Str1 \notin before[G.store])

\* The store held the number 1 and not the string '1'; the generator with
\* JSON.stringify returned 1 and the store holds both now.
C33_Witness ==
    /\ Succeeded
    /\ G.stringifier = "JSON.stringify"
    /\ outcome.value = Num1
    /\ before[G.store] = {Num1}
    /\ stores[G.store] = {Num1, Str1}
    /\ NormalForm(G, Num1) # Num1

\* ------------------------------------------- one store, two stringifiers

\* The normalized form f has been returned on store s by a successful call.
ReturnedForm(s, f) == f \in BagToSet(returned[s])

\* C34 (uniqueness across generators sharing a store holds on normalized
\* forms only): on every store each normalized form has been returned by at
\* most one successful call, and a call succeeds only with a value whose
\* normalized form the store did not hold; a call that ended with a
\* candidate whose normalized form was neither in the store nor excluded has
\* returned it also when the store held the value itself, put there by a
\* generator with another stringifier, and the store then holds both the
\* value and its other normalized form.  A generator with the identity
\* stringifier never returns a value the store holds.
C34_UniqueOnFormsOnly ==
    /\ \A s \in StoreIds : \A f \in BagToSet(returned[s]) :
            CopiesIn(f, returned[s]) = 1
    /\ Succeeded =>
          /\ NormalForm(G, outcome.value) \notin before[G.store]
          /\ G.stringifier = "identity" => outcome.value \notin before[G.store]
    /\ (pc = "done" /\ Len(candidates) >= 1) =>
          LET v == candidates[Len(candidates)]
              f == NormalForm(G, v)
          IN (/\ v \in before[G.store]
              /\ f \notin before[G.store]
              /\ f \notin NormalizedExclude(G))
             => /\ Succeeded
                /\ outcome.value = v
                /\ f # v
                /\ {v, f} \subseteq stores[G.store]
                /\ ReturnedForm(G.store, f)

\* A generator with the identity stringifier returned the number 1 on a
\* store that was empty at first, and then a generator with JSON.stringify
\* on the same store returned the number 1 too: the store holds the number
\* and the string '1', each returned once.
C34_Witness ==
    /\ Succeeded
    /\ G.stringifier = "JSON.stringify"
    /\ G.store \in StartEmpty
    /\ outcome.value = Num1
    /\ Num1 \in before[G.store]
    /\ Str1 \notin before[G.store]
    /\ {Num1, Str1} \subseteq stores[G.store]
    /\ CopiesIn(Num1, returned[G.store]) = 1
    /\ CopiesIn(Str1, returned[G.store]) = 1

====
